---- MODULE Spec2Model ----
(***************************************************************************)
(* A model of dot_vox: the rotation algebra (src/src/types.rs), the chunk  *)
(* decoder and mapper (src/src/parser.rs, model.rs, scene.rs, palette.rs), *)
(* the writer (src/src/dot_vox_data.rs), the Frame accessors               *)
(* (src/src/scene.rs) and the scene traversal                              *)
(* (src/examples/traverse_graph.rs).                                       *)
(*                                                                         *)
(* Bytes are the integers 0..255, a byte buffer is a sequence of bytes, a  *)
(* Rust String is the sequence of its UTF-8 bytes.  The outcome of a call  *)
(* that may panic is a record whose field k is "panic".                    *)
(***************************************************************************)
EXTENDS Integers, Sequences, FiniteSets, TLC

VARIABLES
    rpc,        \* rotation algebra: "idle" | "multiplied"
    in_a, in_b, \* the bytes handed to Rotation::from_byte
    rot_a, rot_b, \* what from_byte gave for them
    rot_p,      \* the product rot_a * rot_b
    dpc,        \* decoder: "build" | "sealed" | "loaded" | "written" | "reloaded"
    kids,       \* the names of the chunks put into MAIN's children region
    fault,      \* the damage done to the file when it was sealed
    file,       \* the byte buffer handed to load_bytes
    loaded,     \* what load_bytes(file) returned
    written,    \* what write_vox(loaded data) produced
    reloaded,   \* what load_bytes(written bytes) returned
    fpc,        \* Frame accessors: "type" | "queried"
    ftext,      \* the text of the attribute value being typed
    fkey,       \* the key the value was stored under, <<>> for no entry
    fout,       \* what orientation(), position() and frame_index() returned
    tpc,        \* traversal: "start" | "loop" | "done" | "panic"
    scenes,     \* vox_tree.scenes
    node_stack, \* iterate_vox_tree's node_stack
    calls,      \* the calls of the placement callback, in order
    pushed      \* the scene indices pushed on node_stack, in order

rvars == <<rpc, in_a, in_b, rot_a, rot_b, rot_p>>
dvars == <<dpc, kids, fault, file, loaded, written, reloaded>>
fvars == <<fpc, ftext, fkey, fout>>
tvars == <<tpc, scenes, node_stack, calls, pushed>>
vars == <<rvars, dvars, fvars, tvars>>

Byte == 0..255

None == [k |-> "none"]

RotIdle ==
    /\ rpc = "idle"
    /\ in_a = -1
    /\ in_b = -1
    /\ rot_a = None
    /\ rot_b = None
    /\ rot_p = None

DecIdle ==
    /\ dpc = "build"
    /\ kids = <<>>
    /\ fault = None
    /\ file = <<>>
    /\ loaded = None
    /\ written = None
    /\ reloaded = None


FrameIdle ==
    /\ fpc = "type"
    /\ ftext = <<>>
    /\ fkey = <<>>
    /\ fout = None

WalkIdle ==
    /\ tpc = "start"
    /\ scenes = <<>>
    /\ node_stack = <<>>
    /\ calls = <<>>
    /\ pushed = <<>>
----------------------------------------------------------------------------
(* Rotation: src/src/types.rs                                              *)

\* u8 bit operations, written arithmetically
Shr(x, n) == x \div (2 ^ n)
Shl8(x, n) == (x * (2 ^ n)) % 256
Bit(x, n) == (x \div (2 ^ n)) % 2
Xor8(x, y) ==
    LET b(n) == (Bit(x, n) + Bit(y, n)) % 2
    IN  b(0) + 2 * b(1) + 4 * b(2) + 8 * b(3)
        + 16 * b(4) + 32 * b(5) + 64 * b(6) + 128 * b(7)

index_nz1(byte) == byte % 4
index_nz2(byte) == Shr(byte, 2) % 4

\* the assert! condition of from_byte
from_byte_assertion(byte) ==
    /\ index_nz1(byte) # index_nz2(byte)
    /\ index_nz1(byte) # 3
    /\ index_nz2(byte) # 3

\* Rotation::from_byte: Rotation(byte), or the assert!'s panic
from_byte(byte) ==
    IF from_byte_assertion(byte)
    THEN [k |-> "rot", byte |-> byte]
    ELSE [k |-> "panic", msg |-> "Invalid Rotation"]

IDENTITY == 4

\* Rotation::to_cols_array_2d: cols[c][r], entries -1, 0, 1.  A write to
\* cols[3] is out of range: "panic".
to_cols_array_2d(byte) ==
    LET nz1 == index_nz1(byte)
        nz2 == index_nz2(byte)
        nz3 == 3 - nz1 - nz2
        s(n) == IF Bit(byte, n) = 0 THEN 1 ELSE -1
    IN  IF nz1 > 2 \/ nz2 > 2 \/ nz3 < 0 \/ nz3 > 2
        THEN [k |-> "panic", msg |-> "index out of bounds"]
        ELSE [k |-> "mat",
              cols |-> [c \in 0..2 |-> [r \in 0..2 |->
                  IF r = 2 /\ c = nz3 THEN s(6)
                  ELSE IF r = 1 /\ c = nz2 THEN s(5)
                  ELSE IF r = 0 /\ c = nz1 THEN s(4)
                  ELSE 0]]]

\* a product whose sign bits are those of rhs as they stand, not moved to
\* the rows lhs puts them in
mul_signs_in_place(self, rhs) ==
    LET rhs_rows == [i \in 0..2 |->
            IF i = 0 THEN index_nz1(rhs)
            ELSE IF i = 1 THEN index_nz2(rhs)
            ELSE 3 - index_nz1(rhs) - index_nz2(rhs)]
        result_row_0 == rhs_rows[index_nz1(self)]
        result_row_1 == rhs_rows[index_nz2(self)]
        signs == Xor8(Shr(self, 4), Shr(rhs, 4))
    IN  result_row_0 + Shl8(result_row_1, 2) + Shl8(signs, 4)

\* products whose sign bits are added, not xor-ed, or are those of rhs
\* alone: what bugs would do
mul_signs_added(self, rhs) ==
    LET rhs_rows == [i \in 0..2 |->
            IF i = 0 THEN index_nz1(rhs)
            ELSE IF i = 1 THEN index_nz2(rhs)
            ELSE 3 - index_nz1(rhs) - index_nz2(rhs)]
        lhs_rows == [i \in 0..2 |->
            IF i = 0 THEN index_nz1(self)
            ELSE IF i = 1 THEN index_nz2(self)
            ELSE 3 - index_nz1(self) - index_nz2(self)]
        rhs_signs == Shr(rhs, 4)
        signs == Shr(self, 4) + Bit(rhs_signs, lhs_rows[0])
                 + 2 * Bit(rhs_signs, lhs_rows[1]) + 4 * Bit(rhs_signs, lhs_rows[2])
    IN  rhs_rows[lhs_rows[0]] + Shl8(rhs_rows[lhs_rows[1]], 2) + Shl8(signs, 4)
mul_rhs_signs_only(self, rhs) ==
    LET rhs_rows == [i \in 0..2 |->
            IF i = 0 THEN index_nz1(rhs)
            ELSE IF i = 1 THEN index_nz2(rhs)
            ELSE 3 - index_nz1(rhs) - index_nz2(rhs)]
        lhs_rows == [i \in 0..2 |->
            IF i = 0 THEN index_nz1(self)
            ELSE IF i = 1 THEN index_nz2(self)
            ELSE 3 - index_nz1(self) - index_nz2(self)]
        rhs_signs == Shr(rhs, 4)
        signs == Bit(rhs_signs, lhs_rows[0])
                 + 2 * Bit(rhs_signs, lhs_rows[1]) + 4 * Bit(rhs_signs, lhs_rows[2])
    IN  rhs_rows[lhs_rows[0]] + Shl8(rhs_rows[lhs_rows[1]], 2) + Shl8(signs, 4)

\* impl Mul<Rotation> for Rotation: the byte of self * rhs
mul(self, rhs) ==
    LET rhs_rows == [i \in 0..2 |->
            IF i = 0 THEN index_nz1(rhs)
            ELSE IF i = 1 THEN index_nz2(rhs)
            ELSE 3 - index_nz1(rhs) - index_nz2(rhs)]
        lhs_rows == [i \in 0..2 |->
            IF i = 0 THEN index_nz1(self)
            ELSE IF i = 1 THEN index_nz2(self)
            ELSE 3 - index_nz1(self) - index_nz2(self)]
        lhs_signs == Shr(self, 4)
        result_row_0 == rhs_rows[lhs_rows[0]]
        result_row_1 == rhs_rows[lhs_rows[1]]
        rhs_signs == Shr(rhs, 4)
        rhs_signs_0 == Bit(rhs_signs, lhs_rows[0])
        rhs_signs_1 == Bit(rhs_signs, lhs_rows[1])
        rhs_signs_2 == Bit(rhs_signs, lhs_rows[2])
        rhs_signs_permutated == rhs_signs_0 + 2 * rhs_signs_1 + 4 * rhs_signs_2
        signs == Xor8(lhs_signs, rhs_signs_permutated)
    IN  result_row_0 + Shl8(result_row_1, 2) + Shl8(signs, 4)

\* glam::Mat3 product of two column-major matrices (test_spm_mul's reference)
MatMul(a, b) ==
    [c \in 0..2 |-> [r \in 0..2 |->
        a[0][r] * b[c][0] + a[1][r] * b[c][1] + a[2][r] * b[c][2]]]


\* a Quat [x, y, z, w] held exactly: the entries are v[1..4] / sqrt(n), n
\* being 1 for entries 0 and 1, 2 for SQRT_2_2 and 4 for 0.5
Q1(x, y, z, w) == [v |-> <<x, y, z, w>>, n |-> 1]
QS(x, y, z, w) == [v |-> <<x, y, z, w>>, n |-> 2]
QH(x, y, z, w) == [v |-> <<x, y, z, w>>, n |-> 4]

\* scale_identity and scale_flip
si == <<1, 1, 1>>
sf == <<-1, -1, -1>>

\* the two mapping tables and the two scales tables of to_quat_scale
mapping_a == <<0, 3, 2, 1, 1, 2, 3, 0>>
mapping_b == <<3, 0, 1, 2, 2, 1, 0, 3>>
scales_a == <<si, sf, sf, si, sf, si, si, sf>>
scales_b == <<sf, si, si, sf, si, sf, sf, si>>

\* the quaternion picked by the low bits of flip, without the mapping table:
\* what a bug would do
quat_scale_unmapped(quats, mapping, scales, flip) ==
    IF flip >= Len(scales)
    THEN [k |-> "panic", msg |-> "index out of bounds"]
    ELSE [k |-> "qs", quat |-> quats[(flip % 4) + 1], scale |-> scales[flip + 1]]

\* (quats[mapping[flip]], scales[flip]): an index past the end of mapping
\* or scales panics
quat_scale(quats, mapping, scales, flip) ==
    IF flip >= Len(mapping) \/ flip >= Len(scales)
    THEN [k |-> "panic", msg |-> "index out of bounds"]
    ELSE [k |-> "qs", quat |-> quats[mapping[flip + 1] + 1],
          scale |-> scales[flip + 1]]

\* Rotation::to_quat_scale
to_quat_scale(byte) ==
    CASE index_nz1(byte) = 0 /\ index_nz2(byte) = 1 ->
           quat_scale(<<Q1(0, 0, 0, 1), Q1(0, 0, 1, 0), Q1(0, 1, 0, 0),
                        Q1(1, 0, 0, 0)>>, mapping_a, scales_a, Shr(byte, 4))
      [] index_nz1(byte) = 0 /\ index_nz2(byte) = 2 ->
           quat_scale(<<QS(0, 1, 1, 0), QS(1, 0, 0, 1), QS(1, 0, 0, -1),
                        QS(0, 1, -1, 0)>>, mapping_b, scales_b, Shr(byte, 4))
      [] index_nz1(byte) = 1 /\ index_nz2(byte) = 2 ->
           quat_scale(<<QH(1, 1, 1, -1), QH(1, -1, 1, 1), QH(1, -1, -1, -1),
                        QH(1, 1, -1, 1)>>, mapping_a, scales_a, Shr(byte, 4))
      [] index_nz1(byte) = 1 /\ index_nz2(byte) = 0 ->
           quat_scale(<<QS(0, 0, 1, 1), QS(0, 0, 1, -1), QS(1, 1, 0, 0),
                        QS(1, -1, 0, 0)>>, mapping_b, scales_b, Shr(byte, 4))
      [] index_nz1(byte) = 2 /\ index_nz2(byte) = 0 ->
           quat_scale(<<QH(1, 1, 1, 1), QH(1, -1, -1, 1), QH(1, 1, -1, -1),
                        QH(1, -1, 1, -1)>>, mapping_a, scales_a, Shr(byte, 4))
      [] index_nz1(byte) = 2 /\ index_nz2(byte) = 1 ->
           quat_scale(<<QS(0, 1, 0, -1), QS(1, 0, 1, 0), QS(0, 1, 0, 1),
                        QS(1, 0, -1, 0)>>, mapping_b, scales_b, Shr(byte, 4))
      [] OTHER -> [k |-> "panic", msg |-> "unreachable"]

\* glam::Mat3::from_quat(q) * diag(scale), every entry multiplied by q.n:
\* cols[c][r]
quat_scale_mat(q, scale) ==
    LET x == q.v[1]
        y == q.v[2]
        z == q.v[3]
        w == q.v[4]
        m == <<<<q.n - 2 * (y * y + z * z), 2 * (x * y + w * z), 2 * (x * z - w * y)>>,
               <<2 * (x * y - w * z), q.n - 2 * (x * x + z * z), 2 * (y * z + w * x)>>,
               <<2 * (x * z + w * y), 2 * (y * z - w * x), q.n - 2 * (x * x + y * y)>>>>
    IN  [c \in 0..2 |-> [r \in 0..2 |-> m[c + 1][r + 1] * scale[c + 1]]]

\* the determinant of a 3x3 matrix cols[c][r]
Det3(m) ==
    m[0][0] * (m[1][1] * m[2][2] - m[2][1] * m[1][2])
    - m[1][0] * (m[0][1] * m[2][2] - m[2][1] * m[0][2])
    + m[2][0] * (m[0][1] * m[1][2] - m[1][1] * m[0][2])
----------------------------------------------------------------------------
(* Byte strings and the nom primitives used by src/src/parser.rs           *)

\* "VOX ", the chunk ids and the attribute keys, as their ASCII bytes
MAGIC_NUMBER == <<86, 79, 88, 32>>
ID_MAIN == <<77, 65, 73, 78>>
ID_SIZE == <<83, 73, 90, 69>>
ID_XYZI == <<88, 89, 90, 73>>
ID_RGBA == <<82, 71, 66, 65>>
ID_MATL == <<77, 65, 84, 76>>
ID_nTRN == <<110, 84, 82, 78>>
ID_nGRP == <<110, 71, 82, 80>>
ID_nSHP == <<110, 83, 72, 80>>
ID_LAYR == <<76, 65, 89, 82>>
ID_PACK == <<80, 65, 67, 75>>
KEY_t == <<95, 116>>
KEY_r == <<95, 114>>
KEY_f == <<95, 102>>

\* IResult: Ok((rest, val)) | Err(Err::Error) | Err(Err::Failure)
Ok(rest, val) == [k |-> "ok", rest |-> rest, val |-> val]
Error == [k |-> "error"]
Failure == [k |-> "failure"]
Panic(msg) == [k |-> "panic", msg |-> msg]

Drop(i, n) == SubSeq(i, n + 1, Len(i))

\* u32::from_le_bytes and u32::to_le_bytes.  The buffers drawn keep every
\* u32 that is read as a number below 2^31 (its top byte below 128).
from_le_bytes(b) == b[1] + 256 * b[2] + 65536 * b[3] + 16777216 * b[4]
to_le_bytes(v) ==
    <<v % 256, (v \div 256) % 256, (v \div 65536) % 256, (v \div 16777216) % 256>>
\* u32::MAX.to_le_bytes()
U32_MAX_BYTES == <<255, 255, 255, 255>>

\* Slicing without a bound check: what a bug would do
take_unchecked(count, i) ==
    IF count > Len(i)
    THEN Panic("range end index out of range for slice")
    ELSE Ok(Drop(i, count), SubSeq(i, 1, count))

\* nom::bytes::complete::take: the bound is checked before slicing
take(count, i) ==
    IF count > Len(i)
    THEN Error
    ELSE Ok(Drop(i, count), SubSeq(i, 1, count))

\* any bytes of the tag's length taken for the tag: what a bug would do
tag_unchecked(t, i) ==
    IF Len(i) >= Len(t) THEN Ok(Drop(i, Len(t)), t) ELSE Error

\* nom::bytes::complete::tag
tag(t, i) ==
    IF Len(i) >= Len(t) /\ SubSeq(i, 1, Len(t)) = t
    THEN Ok(Drop(i, Len(t)), t)
    ELSE Error

le_u8(i) == IF Len(i) < 1 THEN Error ELSE Ok(Drop(i, 1), i[1])

\* the `?` operator and the sequencing of pair and tuple: an Err (and a
\* panic) of r is returned, an Ok goes on with its rest and value
Bind(r, F(_, _)) == IF r.k = "ok" THEN F(r.rest, r.val) ELSE r

le_u32(i) == Bind(take(4, i), LAMBDA rest, b : Ok(rest, from_le_bytes(b)))

\* le_i32 / le_u32 whose value the caller ignores: four bytes are consumed
le_ignored(i) == Bind(take(4, i), LAMBDA rest, b : Ok(rest, 0))

\* str::from_utf8: well-formed UTF-8 (RFC 3629, no overlong forms, no
\* surrogates, at most U+10FFFF)
IsCont(b) == b >= 128 /\ b <= 191
RECURSIVE IsUtf8(_)
IsUtf8(s) ==
    IF Len(s) = 0 THEN TRUE
    ELSE LET b == s[1] IN
        IF b < 128 THEN IsUtf8(Drop(s, 1))
        ELSE IF b >= 194 /\ b <= 223
        THEN Len(s) >= 2 /\ IsCont(s[2]) /\ IsUtf8(Drop(s, 2))
        ELSE IF b >= 224 /\ b <= 239
        THEN /\ Len(s) >= 3
             /\ IsCont(s[2])
             /\ IsCont(s[3])
             /\ (b = 224 => s[2] >= 160)
             /\ (b = 237 => s[2] <= 159)
             /\ IsUtf8(Drop(s, 3))
        ELSE IF b >= 240 /\ b <= 244
        THEN /\ Len(s) >= 4
             /\ IsCont(s[2])
             /\ IsCont(s[3])
             /\ IsCont(s[4])
             /\ (b = 240 => s[2] >= 144)
             /\ (b = 244 => s[2] <= 143)
             /\ IsUtf8(Drop(s, 4))
        ELSE FALSE

\* parser::to_str
to_str(i) == IF IsUtf8(i) THEN [k |-> "ok", val |-> i] ELSE [k |-> "utf8error"]

\* Dict = HashMap<String, String>: a function from keys to values
EmptyDict == <<>>
DictInsert(d, key, value) ==
    [x \in (DOMAIN d) \cup {key} |-> IF x = key THEN value ELSE d[x]]
DictHas(d, key) == key \in DOMAIN d
----------------------------------------------------------------------------
(* Leaf parsers: src/src/parser.rs, model.rs, palette.rs, scene.rs         *)

\* parser::parse_string: flat_map(le_u32, take), then map_res(.., to_str)
parse_string(i) ==
    Bind(le_u32(i), LAMBDA r1, n :
    Bind(take(n, r1), LAMBDA r2, bytes :
    IF to_str(bytes).k = "ok" THEN Ok(r2, bytes) ELSE Error))

\* parser::parse_dict_entry
parse_dict_entry(i) ==
    Bind(parse_string(i), LAMBDA r1, key :
    Bind(parse_string(r1), LAMBDA r2, value :
    Ok(r2, <<key, value>>)))

\* parser::validate_count
validate_count(i, count, minimum_object_size) ==
    IF count > Len(i) \div minimum_object_size
    THEN Failure
    ELSE Ok(i, count)

\* nom::multi::fold_many_m_n(n, n, parse_dict_entry, init, fold): left entries
\* still to read
RECURSIVE fold_dict_entries(_, _, _)
fold_dict_entries(left, i, map) ==
    IF left = 0 THEN Ok(i, map)
    ELSE Bind(parse_dict_entry(i), LAMBDA rest, e :
         fold_dict_entries(left - 1, rest, DictInsert(map, e[1], e[2])))

\* parser::parse_dict
parse_dict(i) ==
    Bind(le_u32(i), LAMBDA r1, n :
    Bind(validate_count(r1, n, 8), LAMBDA r2, count :
    fold_dict_entries(count, r2, EmptyDict)))

\* parser::parse_material
parse_material(i) ==
    Bind(le_u32(i), LAMBDA r1, id :
    Bind(parse_dict(r1), LAMBDA r2, properties :
    Ok(r2, [id |-> id, properties |-> properties])))

\* model::parse_size
parse_size(i) ==
    Bind(le_u32(i), LAMBDA r1, x :
    Bind(le_u32(r1), LAMBDA r2, y :
    Bind(le_u32(r2), LAMBDA r3, z :
    Ok(r3, [x |-> x, y |-> y, z |-> z]))))

\* u8::wrapping_sub: what a bug would do
wrapping_sub(a, b) == (a - b) % 256

\* u8::saturating_sub
saturating_sub(a, b) == IF a < b THEN 0 ELSE a - b

\* model::parse_voxel
parse_voxel(input) ==
    Bind(le_u8(input), LAMBDA r1, x :
    Bind(le_u8(r1), LAMBDA r2, y :
    Bind(le_u8(r2), LAMBDA r3, z :
    Bind(le_u8(r3), LAMBDA r4, i :
    Ok(r4, [x |-> x, y |-> y, z |-> z, i |-> saturating_sub(i, 1)])))))

\* nom::multi::count(parse_voxel, n)
RECURSIVE count_voxels(_, _, _)
count_voxels(left, i, res) ==
    IF left = 0 THEN Ok(i, res)
    ELSE Bind(parse_voxel(i), LAMBDA rest, v :
         count_voxels(left - 1, rest, Append(res, v)))

\* model::parse_voxels
parse_voxels(i) ==
    Bind(le_u32(i), LAMBDA rest, n : count_voxels(n, rest, <<>>))

\* palette::parse_color applied to four bytes
Color(b) == [r |-> b[1], g |-> b[2], b |-> b[3], a |-> b[4]]

\* palette::extract_palette: all_consuming(many0(parse_color)).  many0 reads
\* a color while four bytes are left, Len(i) \div 4 of them, and
\* all_consuming asks that nothing is left
extract_palette(i) ==
    IF Len(i) % 4 # 0 THEN Error
    ELSE Ok(<<>>, [j \in 1..(Len(i) \div 4) |->
                      Color(SubSeq(i, 4 * j - 3, 4 * j))])

\* scene::parse_node_header
parse_node_header(i) ==
    Bind(le_u32(i), LAMBDA r1, id :
    Bind(parse_dict(r1), LAMBDA r2, attributes :
    Ok(r2, [id |-> id, attributes |-> attributes])))

\* scene::parse_scene_shape_model
parse_scene_shape_model(i) ==
    Bind(le_u32(i), LAMBDA r1, model_id :
    Bind(parse_dict(r1), LAMBDA r2, attributes :
    Ok(r2, [model_id |-> model_id, attributes |-> attributes])))

\* nom::multi::count(parse_dict, n)
RECURSIVE count_dicts(_, _, _)
count_dicts(left, i, res) ==
    IF left = 0 THEN Ok(i, res)
    ELSE Bind(parse_dict(i), LAMBDA rest, d :
         count_dicts(left - 1, rest, Append(res, d)))

\* nom::multi::count(le_u32, n)
RECURSIVE count_u32s(_, _, _)
count_u32s(left, i, res) ==
    IF left = 0 THEN Ok(i, res)
    ELSE Bind(le_u32(i), LAMBDA rest, v :
         count_u32s(left - 1, rest, Append(res, v)))

\* nom::multi::count(parse_scene_shape_model, n)
RECURSIVE count_shape_models(_, _, _)
count_shape_models(left, i, res) ==
    IF left = 0 THEN Ok(i, res)
    ELSE Bind(parse_scene_shape_model(i), LAMBDA rest, m :
         count_shape_models(left - 1, rest, Append(res, m)))

\* scene::parse_scene_transform
parse_scene_transform(i) ==
    Bind(parse_node_header(i), LAMBDA r1, header :
    Bind(le_u32(r1), LAMBDA r2, child :
    Bind(le_ignored(r2), LAMBDA r3, ignored :
    Bind(le_u32(r3), LAMBDA r4, layer_id :
    Bind(le_u32(r4), LAMBDA r5, frame_count :
    Bind(count_dicts(frame_count, r5, <<>>), LAMBDA r6, frames :
    Ok(r6, [header |-> header, child |-> child,
            layer_id |-> layer_id, frames |-> frames])))))))

\* scene::parse_scene_group
parse_scene_group(i) ==
    Bind(parse_node_header(i), LAMBDA r1, header :
    Bind(le_u32(r1), LAMBDA r2, child_count :
    Bind(count_u32s(child_count, r2, <<>>), LAMBDA r3, children :
    Ok(r3, [header |-> header, children |-> children]))))

\* scene::parse_scene_shape
parse_scene_shape(i) ==
    Bind(parse_node_header(i), LAMBDA r1, header :
    Bind(le_u32(r1), LAMBDA r2, model_count :
    Bind(count_shape_models(model_count, r2, <<>>), LAMBDA r3, models :
    Ok(r3, [header |-> header, models |-> models]))))

\* scene::parse_layer
parse_layer(i) ==
    Bind(le_u32(i), LAMBDA r1, id :
    Bind(parse_dict(r1), LAMBDA r2, attributes :
    Bind(le_ignored(r2), LAMBDA r3, ignored :
    Ok(r3, [id |-> id, attributes |-> attributes]))))
----------------------------------------------------------------------------
(* Chunk decoder and mapper: src/src/parser.rs                             *)

\* Chunk::Invalid(chunk_content.to_vec()); a panic inside the leaf's parser
\* is no Err and is not caught by the match
Leaf(r, t, content) ==
    IF r.k = "ok" THEN [t |-> t, val |-> r.val]
    ELSE IF r.k = "panic" THEN [t |-> "panic", msg |-> r.msg]
    ELSE [t |-> "Invalid", val |-> content]

build_material_chunk(chunk_content) ==
    Leaf(parse_material(chunk_content), "Material", chunk_content)
build_palette_chunk(chunk_content) ==
    Leaf(extract_palette(chunk_content), "Palette", chunk_content)
build_size_chunk(chunk_content) ==
    Leaf(parse_size(chunk_content), "Size", chunk_content)
\* voxels that fail to parse taken as no voxels: what a bug would do
build_voxel_chunk_default(chunk_content) ==
    IF parse_voxels(chunk_content).k \in {"ok", "panic"}
    THEN Leaf(parse_voxels(chunk_content), "Voxels", chunk_content)
    ELSE [t |-> "Voxels", val |-> <<>>]
build_voxel_chunk(chunk_content) ==
    Leaf(parse_voxels(chunk_content), "Voxels", chunk_content)
build_scene_transform_chunk(chunk_content) ==
    Leaf(parse_scene_transform(chunk_content), "TransformNode", chunk_content)
build_scene_group_chunk(chunk_content) ==
    Leaf(parse_scene_group(chunk_content), "GroupNode", chunk_content)
build_scene_shape_chunk(chunk_content) ==
    Leaf(parse_scene_shape(chunk_content), "ShapeNode", chunk_content)
build_layer_chunk(chunk_content) ==
    Leaf(parse_layer(chunk_content), "Layer", chunk_content)

RECURSIVE parse_chunk(_)
RECURSIVE many0_parse_chunk(_, _)

\* nom::multi::many0(parse_chunk), r being parse_chunk(i): stops with Ok at
\* the first Err::Error, and fails if the parser consumed nothing
many0_step(i, acc, r) ==
    IF r.k = "error" THEN Ok(i, acc)
    ELSE IF r.k # "ok" THEN r
    ELSE IF Len(r.rest) = Len(i) THEN Error
    ELSE many0_parse_chunk(r.rest, Append(acc, r.val))

many0_parse_chunk(i, acc) == many0_step(i, acc, parse_chunk(i))

\* every chunk with children taken as Main: what a bug would do
build_parent_any_id(id, result) ==
    IF result.k = "panic" THEN [t |-> "panic", msg |-> result.msg]
    ELSE [t |-> "Main", val |-> IF result.k = "ok" THEN result.val ELSE <<>>]

\* build_chunk's else branch, result being many0(parse_chunk)(child_content)
build_parent(id, result) ==
    IF result.k = "panic" THEN [t |-> "panic", msg |-> result.msg]
    ELSE IF id = ID_MAIN
    THEN [t |-> "Main", val |-> IF result.k = "ok" THEN result.val ELSE <<>>]
    ELSE [t |-> "Unknown", val |-> id]

\* parser::build_chunk
build_chunk(id, chunk_content, children_size, child_content) ==
    IF children_size = 0
    THEN IF id = ID_SIZE THEN build_size_chunk(chunk_content)
         ELSE IF id = ID_XYZI THEN build_voxel_chunk(chunk_content)
         ELSE IF id = ID_RGBA THEN build_palette_chunk(chunk_content)
         ELSE IF id = ID_MATL THEN build_material_chunk(chunk_content)
         ELSE IF id = ID_nTRN THEN build_scene_transform_chunk(chunk_content)
         ELSE IF id = ID_nGRP THEN build_scene_group_chunk(chunk_content)
         ELSE IF id = ID_nSHP THEN build_scene_shape_chunk(chunk_content)
         ELSE IF id = ID_LAYR THEN build_layer_chunk(chunk_content)
         ELSE [t |-> "Unknown", val |-> id]
    ELSE build_parent(id, many0_parse_chunk(child_content, <<>>))

\* the end of parse_chunk: a panic inside build_chunk unwinds through it
Built(rest, chunk) ==
    IF chunk.t = "panic" THEN Panic(chunk.msg) ELSE Ok(rest, chunk)

\* parser::parse_chunk
parse_chunk(i) ==
    Bind(take(4, i), LAMBDA r1, id :
    IF to_str(id).k # "ok" THEN Error ELSE
    Bind(le_u32(r1), LAMBDA r2, content_size :
    Bind(le_u32(r2), LAMBDA r3, children_size :
    Bind(take(content_size, r3), LAMBDA r4, chunk_content :
    Bind(take(children_size, r4), LAMBDA r5, child_content :
    Built(r5, build_chunk(id, chunk_content, children_size, child_content)))))))

\* palette::DEFAULT_PALETTE: 256 colors read from default_palette.bytes.
\* The table's bytes are data outside the source: entry n stands for them
DEFAULT_PALETTE ==
    [n \in 1..256 |->
        [r |-> (n * 51) % 256, g |-> (n * 3) % 256, b |-> n - 1, a |-> 255]]

\* Frame::new
FrameNew(attributes) == [attributes |-> attributes]

\* the loop body of map_chunk_to_data: one child chunk folded into the state
map_child(s, chunk) ==
    IF chunk.t = "Size" THEN [s EXCEPT !.size_holder = [k |-> "some", val |-> chunk.val]]
    ELSE IF chunk.t = "Voxels"
    THEN IF s.size_holder.k = "some"
         THEN [s EXCEPT !.models =
                  Append(@, [size |-> s.size_holder.val, voxels |-> chunk.val])]
         ELSE s
    ELSE IF chunk.t = "Palette" THEN [s EXCEPT !.palette = chunk.val]
    ELSE IF chunk.t = "Material" THEN [s EXCEPT !.materials = Append(@, chunk.val)]
    ELSE IF chunk.t = "TransformNode"
    THEN [s EXCEPT !.scenes = Append(@,
             [t |-> "Transform",
              attributes |-> chunk.val.header.attributes,
              frames |-> [j \in 1..Len(chunk.val.frames) |->
                             FrameNew(chunk.val.frames[j])],
              child |-> chunk.val.child,
              layer_id |-> chunk.val.layer_id])]
    ELSE IF chunk.t = "GroupNode"
    THEN [s EXCEPT !.scenes = Append(@,
             [t |-> "Group",
              attributes |-> chunk.val.header.attributes,
              children |-> chunk.val.children])]
    ELSE IF chunk.t = "ShapeNode"
    THEN [s EXCEPT !.scenes = Append(@,
             [t |-> "Shape",
              attributes |-> chunk.val.header.attributes,
              models |-> chunk.val.models])]
    ELSE IF chunk.t = "Layer"
    THEN [s EXCEPT !.layers = Append(@, [attributes |-> chunk.val.attributes])]
    ELSE s

RECURSIVE map_children(_, _, _)
map_children(s, children, n) ==
    IF n > Len(children) THEN s
    ELSE map_children(map_child(s, children[n]), children, n + 1)

\* the DotVoxData built from the state the loop ends in
DataOf(version, s) ==
    [version |-> version, models |-> s.models, palette |-> s.palette,
     materials |-> s.materials, scenes |-> s.scenes, layers |-> s.layers]

\* the default palette left in the data of a root that is no Main, and the
\* palette of a Main that starts empty: what bugs would do
map_chunk_to_data_keeps_default(version, main) ==
    DataOf(version, IF main.t = "Main"
                    THEN map_children(
                             [size_holder |-> None, models |-> <<>>,
                              palette |-> DEFAULT_PALETTE, materials |-> <<>>,
                              scenes |-> <<>>, layers |-> <<>>],
                             main.val, 1)
                    ELSE [models |-> <<>>, palette |-> DEFAULT_PALETTE,
                          materials |-> <<>>, scenes |-> <<>>, layers |-> <<>>])
map_chunk_to_data_no_default(version, main) ==
    IF main.t = "Main"
    THEN DataOf(version, map_children(
             [size_holder |-> None, models |-> <<>>,
              palette |-> <<>>, materials |-> <<>>,
              scenes |-> <<>>, layers |-> <<>>],
             main.val, 1))
    ELSE [version |-> version, models |-> <<>>, palette |-> <<>>,
          materials |-> <<>>, scenes |-> <<>>, layers |-> <<>>]

\* parser::map_chunk_to_data
map_chunk_to_data(version, main) ==
    IF main.t = "Main"
    THEN DataOf(version, map_children(
             [size_holder |-> None, models |-> <<>>,
              palette |-> DEFAULT_PALETTE, materials |-> <<>>,
              scenes |-> <<>>, layers |-> <<>>],
             main.val, 1))
    ELSE [version |-> version, models |-> <<>>, palette |-> <<>>,
          materials |-> <<>>, scenes |-> <<>>, layers |-> <<>>]

\* parser::parse_vox_file
parse_vox_file(i) ==
    Bind(tag(MAGIC_NUMBER, i), LAMBDA r1, magic :
    Bind(le_u32(r1), LAMBDA r2, version :
    Bind(parse_chunk(r2), LAMBDA r3, main :
    Ok(r3, map_chunk_to_data(version, main)))))

\* the match of load_bytes on r = parse_vox_file(bytes)
Loaded(r) ==
    IF r.k = "ok" THEN [k |-> "Ok", data |-> r.val]
    ELSE IF r.k = "panic" THEN r
    ELSE [k |-> "Err", msg |-> "Not a valid MagicaVoxel .vox file"]

\* lib::load_bytes
load_bytes(bytes) == Loaded(parse_vox_file(bytes))
----------------------------------------------------------------------------
(* Frame accessors: src/src/scene.rs.  A text is the sequence of its       *)
(* bytes; the texts drawn keep every parsed value below 2^31.              *)

Some(v) == [k |-> "some", val |-> v]

RECURSIVE ParseDigits(_, _, _, _, _, _)
\* the digit loop of nom::character::complete::{u8, u32, i32}: value is
\* folded with checked_mul(10) and checked_add(d) (sgn = 1) or
\* checked_sub(d) (sgn = -1), which fail past div10 * 10 + mod10; a
\* non-digit ends the number, and is an error at the first position
ParseDigits(i, pos, value, sgn, div10, mod10) ==
    IF pos > Len(i) THEN Ok(<<>>, value)
    ELSE IF i[pos] \notin 48..57
    THEN IF pos = 1 THEN Error ELSE Ok(Drop(i, pos - 1), value)
    ELSE IF \/ sgn * value < div10
            \/ sgn * value = div10 /\ i[pos] - 48 <= mod10
    THEN ParseDigits(i, pos + 1, value * 10 + sgn * (i[pos] - 48),
                     sgn, div10, mod10)
    ELSE Error

\* nom::character::complete::u8
nom_u8(i) == IF Len(i) = 0 THEN Error ELSE ParseDigits(i, 1, 0, 1, 25, 5)

\* nom::character::complete::u32
nom_u32(i) ==
    IF Len(i) = 0 THEN Error ELSE ParseDigits(i, 1, 0, 1, 429496729, 5)

\* the digits of nom::character::complete::i32 after its sign
nom_i32_digits(i, negative) ==
    IF Len(i) = 0 THEN Error
    ELSE IF negative THEN ParseDigits(i, 1, 0, -1, 214748364, 8)
    ELSE ParseDigits(i, 1, 0, 1, 214748364, 7)

\* nom::character::complete::i32: an optional '-' or '+', then digits
nom_i32(i) ==
    IF Len(i) > 0 /\ i[1] \in {43, 45}
    THEN nom_i32_digits(Drop(i, 1), i[1] = 45)
    ELSE nom_i32_digits(i, FALSE)

RECURSIVE Spaces(_, _)
\* the number of spaces and tabs i[pos..] starts with
Spaces(i, pos) ==
    IF pos <= Len(i) /\ i[pos] \in {32, 9} THEN 1 + Spaces(i, pos + 1) ELSE 0

\* nom::character::complete::space1
space1(i) ==
    IF Spaces(i, 1) = 0 THEN Error
    ELSE Ok(Drop(i, Spaces(i, 1)), SubSeq(i, 1, Spaces(i, 1)))

\* Some(Rotation::from_byte(byte_rotation)): the assert! of from_byte
\* panics inside orientation()
SomeRotation(r) == IF r.k = "panic" THEN r ELSE Some(r)

\* the if let of orientation() on r = u8(value)
OrientationOf(r) ==
    IF r.k = "ok" THEN SomeRotation(from_byte(r.val)) ELSE None

\* Frame::orientation
orientation(frame) ==
    IF DictHas(frame.attributes, KEY_r)
    THEN OrientationOf(nom_u8(frame.attributes[KEY_r]))
    ELSE None

\* tuple((i32, space1, i32, space1, i32)) of position()
position_tuple(i) ==
    Bind(nom_i32(i), LAMBDA r1, x :
    Bind(space1(r1), LAMBDA r2, s1 :
    Bind(nom_i32(r2), LAMBDA r3, y :
    Bind(space1(r3), LAMBDA r4, s2 :
    Bind(nom_i32(r4), LAMBDA r5, z :
    Ok(r5, [x |-> x, y |-> y, z |-> z]))))))

\* the match of position() and the if let of frame_index() on a result r
SomeIfOk(r) == IF r.k = "ok" THEN Some(r.val) ELSE None

\* Frame::position
position(frame) ==
    IF DictHas(frame.attributes, KEY_t)
    THEN SomeIfOk(position_tuple(frame.attributes[KEY_t]))
    ELSE None

\* Frame::frame_index
frame_index(frame) ==
    IF DictHas(frame.attributes, KEY_f)
    THEN SomeIfOk(nom_u32(frame.attributes[KEY_f]))
    ELSE None
----------------------------------------------------------------------------
(* Scene traversal: src/examples/traverse_graph.rs.  A Vector3 is          *)
(* <<x, y, z>>; a Matrix3 is its columns, m[c][r], as nalgebra stores it.  *)

\* Matrix3::identity()
Identity3 == [c \in 0..2 |-> [r \in 0..2 |-> IF c = r THEN 1 ELSE 0]]

\* parse_rotation_matrix: an index of 3 is out of the matrix's range, and
\* two equal indices make the third one 3
parse_rotation_matrix(b) ==
    LET index_in_first_row == b % 4
        index_in_second_row == Shr(b, 2) % 4
        index_in_third_row ==
            3 - Xor8(index_in_first_row, index_in_second_row)
        sign(n) == IF Bit(b, n) = 0 THEN 1 ELSE -1
    IN  IF \/ index_in_first_row > 2
           \/ index_in_second_row > 2
           \/ index_in_third_row > 2
        THEN Panic("index out of bounds")
        ELSE [k |-> "ok",
              val |-> [c \in 0..2 |-> [r \in 0..2 |->
                  IF r = 2 /\ c = index_in_third_row THEN sign(6)
                  ELSE IF r = 1 /\ c = index_in_second_row THEN sign(5)
                  ELSE IF r = 0 /\ c = index_in_first_row THEN sign(4)
                  ELSE 0]]]

\* transform (of main): matrix * vec
transform(vec, matrix) ==
    <<vec[1] * matrix[0][0] + vec[2] * matrix[1][0] + vec[3] * matrix[2][0],
      vec[1] * matrix[0][1] + vec[2] * matrix[1][1] + vec[3] * matrix[2][1],
      vec[1] * matrix[0][2] + vec[2] * matrix[1][2] + vec[3] * matrix[2][2]>>

\* Vector3 + Vector3
VecAdd(a, b) == <<a[1] + b[1], a[2] + b[2], a[3] + b[3]>>

RECURSIVE split(_, _, _)
\* str::split(" "): the pieces of t[pos..] between the spaces, piece
\* being the piece read so far
split(t, pos, piece) ==
    IF pos > Len(t) THEN <<piece>>
    ELSE IF t[pos] = 32 THEN <<piece>> \o split(t, pos + 1, <<>>)
    ELSE split(t, pos + 1, Append(piece, t[pos]))

\* str::parse::<i32>: a sign and digits, and nothing else
parse_i32(s) ==
    Bind(nom_i32(s), LAMBDA rest, v : IF rest = <<>> THEN Ok(rest, v) ELSE Error)

\* str::parse::<u8>: an optional '+' and digits, and nothing else
parse_u8(s) ==
    Bind(nom_u8(IF Len(s) > 0 /\ s[1] = 43 THEN Drop(s, 1) ELSE s),
         LAMBDA rest, v : IF rest = <<>> THEN Ok(rest, v) ELSE Error)

\* the translation_delta of the Transform arm: every piece parsed with
\* expect, three pieces asserted
translation_delta(t) ==
    LET parsed == [j \in 1..Len(split(t, 1, <<>>)) |->
                      parse_i32(split(t, 1, <<>>)[j])]
    IN  IF \E j \in 1..Len(parsed) : parsed[j].k # "ok"
        THEN Panic("Not an integer!")
        ELSE IF Len(parsed) # 3 THEN Panic("assertion failed")
        ELSE [k |-> "ok", val |-> <<parsed[1].val, parsed[2].val, parsed[3].val>>]

\* a Transform arm that leaves `_t` out: what a bug would do
arm_translation_ignored(frame, translation) ==
    [k |-> "ok", val |-> translation]

\* the translation of the Transform arm
arm_translation(frame, translation) ==
    IF DictHas(frame.attributes, KEY_t)
    THEN Bind(translation_delta(frame.attributes[KEY_t]),
              LAMBDA rest, delta : [k |-> "ok", val |-> VecAdd(translation, delta)])
    ELSE [k |-> "ok", val |-> translation]

\* rotation * parse_rotation_matrix(byte), byte being r.parse() of `_r`
times_parsed(rotation, byte) ==
    IF byte.k # "ok"
    THEN Panic("Expected valid u8 byte to parse rotation matrix")
    ELSE IF parse_rotation_matrix(byte.val).k # "ok"
    THEN parse_rotation_matrix(byte.val)
    ELSE [k |-> "ok",
          val |-> MatMul(rotation, parse_rotation_matrix(byte.val).val)]

\* the orientation of the Transform arm
arm_orientation(frame, rotation) ==
    IF DictHas(frame.attributes, KEY_r)
    THEN times_parsed(rotation, parse_u8(frame.attributes[KEY_r]))
    ELSE [k |-> "ok", val |-> rotation]

\* i32 / i32: the quotient rounded towards zero
div_i32(a, b) == IF a >= 0 THEN a \div b ELSE -((-a) \div b)

\* the closure of main: position - (model_size / 2), model_size being the
\* model's size transformed by the orientation
element_position(size, pos, orient) ==
    <<pos[1] - div_i32(transform(size, orient)[1], 2),
      pos[2] - div_i32(transform(size, orient)[2], 2),
      pos[3] - div_i32(transform(size, orient)[3], 2)>>
----------------------------------------------------------------------------
(* Writer: src/src/dot_vox_data.rs                                         *)

RECURSIVE Flatten(_, _)
\* the concatenation of the byte strings ss[n..]
Flatten(ss, n) == IF n > Len(ss) THEN <<>> ELSE ss[n] \o Flatten(ss, n + 1)

\* DotVoxData::write_chunk (every id written has four bytes: the assert!
\* holds)
write_chunk(id, chunk, num_children_bytes) ==
    id \o to_le_bytes(Len(chunk)) \o to_le_bytes(num_children_bytes) \o chunk

\* DotVoxData::write_leaf_chunk
write_leaf_chunk(id, chunk) == write_chunk(id, chunk, 0)

\* DotVoxData::write_header
write_header(data) == MAGIC_NUMBER \o to_le_bytes(data.version)

\* the two length fields of the MAIN header exchanged: what a bug would do
write_main_chunk_swapped(num_children_bytes) ==
    write_chunk(ID_MAIN, [n \in 1..num_children_bytes |-> 0], 0)

\* DotVoxData::write_main_chunk
write_main_chunk(num_children_bytes) ==
    write_chunk(ID_MAIN, <<>>, num_children_bytes)

\* Model::num_vox_bytes
num_vox_bytes(model) == 40 + 4 * Len(model.voxels)

RECURSIVE SumVoxBytes(_, _)
SumVoxBytes(models, n) ==
    IF n > Len(models) THEN 0
    ELSE num_vox_bytes(models[n]) + SumVoxBytes(models, n + 1)

\* DotVoxData::write_pack_chunk
write_pack_chunk(data) ==
    write_chunk(ID_PACK, to_le_bytes(Len(data.models)),
                SumVoxBytes(data.models, 1))

\* voxel.i + 1 on u8: with overflow checks (debug) 255 + 1 panics, without
\* them (release) it wraps to 0
add_u8(a, b, checks) ==
    IF a + b <= 255 THEN [k |-> "ok", val |-> a + b]
    ELSE IF checks THEN Panic("attempt to add with overflow")
    ELSE [k |-> "ok", val |-> (a + b) % 256]

\* DotVoxData::write_model
write_model(model, checks) ==
    LET size_chunk == to_le_bytes(model.size.x) \o to_le_bytes(model.size.y)
                      \o to_le_bytes(model.size.z)
        idx == [j \in 1..Len(model.voxels) |-> add_u8(model.voxels[j].i, 1, checks)]
        xyzi_chunk ==
            to_le_bytes(Len(model.voxels)) \o
            Flatten([j \in 1..Len(model.voxels) |->
                        <<model.voxels[j].x, model.voxels[j].y,
                          model.voxels[j].z, idx[j].val>>], 1)
    IN  IF \E j \in 1..Len(model.voxels) : idx[j].k = "panic"
        THEN Panic("attempt to add with overflow")
        ELSE [k |-> "ok",
              bytes |-> write_leaf_chunk(ID_SIZE, size_chunk)
                        \o write_leaf_chunk(ID_XYZI, xyzi_chunk)]

\* DotVoxData::write_models
write_models(data, checks) ==
    LET ms == [j \in 1..Len(data.models) |-> write_model(data.models[j], checks)]
    IN  IF \E j \in 1..Len(ms) : ms[j].k = "panic"
        THEN Panic("attempt to add with overflow")
        ELSE [k |-> "ok",
              bytes |-> (IF Len(data.models) > 1 THEN write_pack_chunk(data)
                         ELSE <<>>)
                        \o Flatten([j \in 1..Len(ms) |-> ms[j].bytes], 1)]

\* DotVoxData::write_string
write_string(str) == to_le_bytes(Len(str)) \o str

RECURSIVE write_dict_entries(_, _)
\* the entries of dict over the keys left, in the order the map yields them
write_dict_entries(dict, left) ==
    IF left = {} THEN <<>>
    ELSE LET key == CHOOSE x \in left : TRUE
         IN  write_string(key) \o write_string(dict[key])
             \o write_dict_entries(dict, left \ {key})

\* DotVoxData::write_dict
write_dict(dict) ==
    to_le_bytes(Cardinality(DOMAIN dict))
    \o write_dict_entries(dict, DOMAIN dict)

\* DotVoxData::write_scene_node
write_scene_node(node, i) ==
    IF node.t = "Group"
    THEN write_leaf_chunk(ID_nGRP,
             to_le_bytes(i) \o write_dict(node.attributes)
             \o to_le_bytes(Len(node.children))
             \o Flatten([j \in 1..Len(node.children) |->
                            to_le_bytes(node.children[j])], 1))
    ELSE IF node.t = "Transform"
    THEN write_leaf_chunk(ID_nTRN,
             to_le_bytes(i) \o write_dict(node.attributes)
             \o to_le_bytes(node.child)
             \o U32_MAX_BYTES
             \o to_le_bytes(node.layer_id)
             \o to_le_bytes(Len(node.frames))
             \o Flatten([j \in 1..Len(node.frames) |->
                            write_dict(node.frames[j].attributes)], 1))
    ELSE write_leaf_chunk(ID_nSHP,
             to_le_bytes(i) \o write_dict(node.attributes)
             \o to_le_bytes(Len(node.models))
             \o Flatten([j \in 1..Len(node.models) |->
                            to_le_bytes(node.models[j].model_id)
                            \o write_dict(node.models[j].attributes)], 1))

\* DotVoxData::write_scene_graph
write_scene_graph(data) ==
    Flatten([j \in 1..Len(data.scenes) |->
                write_scene_node(data.scenes[j], j - 1)], 1)

\* DotVoxData::write_palette_chunk: the loop pushes r, g, b, a of each color
write_palette_chunk(data) ==
    write_leaf_chunk(ID_RGBA,
        [n \in 1..(4 * Len(data.palette)) |->
            LET color == data.palette[(n - 1) \div 4 + 1]
            IN  CASE (n - 1) % 4 = 0 -> color.r
                  [] (n - 1) % 4 = 1 -> color.g
                  [] (n - 1) % 4 = 2 -> color.b
                  [] (n - 1) % 4 = 3 -> color.a])

\* DotVoxData::write_vox
write_vox(data, checks) ==
    LET models == write_models(data, checks)
        children_buffer == models.bytes \o write_scene_graph(data)
                           \o write_palette_chunk(data)
    IN  IF models.k = "panic" THEN models
        ELSE [k |-> "ok",
              bytes |-> write_header(data)
                        \o write_main_chunk(Len(children_buffer))
                        \o children_buffer]
----------------------------------------------------------------------------
(* The byte buffers handed to load_bytes: a file header, a MAIN chunk and  *)
(* child chunks drawn from a small alphabet, then damaged                  *)

\* the version of the test data ("placeholder", lib.rs)
VERSION == 150

\* ASCII text of the attribute values used: "0 0 1", "0", "1", "rOBJ"
TXT_0_0_1 == <<48, 32, 48, 32, 49>>
TXT_0 == <<48>>
TXT_1 == <<49>>
TXT_40 == <<52, 48>>
ID_rOBJ == <<114, 79, 66, 74>>
KEY_name == <<95, 110, 97, 109, 101>>

Dict1(key, value) == DictInsert(EmptyDict, key, value)

TransformItem(child, layer_id, frame) ==
    write_scene_node([t |-> "Transform", attributes |-> EmptyDict,
                      frames |-> <<FrameNew(frame)>>, child |-> child,
                      layer_id |-> layer_id], 0)

\* the bytes of the child chunk called item
ItemBytes(item) ==
    CASE item = "size" ->
           write_leaf_chunk(ID_SIZE, to_le_bytes(2) \o to_le_bytes(2) \o to_le_bytes(2))
      [] item = "size3" ->
           write_leaf_chunk(ID_SIZE, to_le_bytes(3) \o to_le_bytes(1) \o to_le_bytes(300))
      [] item = "xyzi" ->
           write_leaf_chunk(ID_XYZI, to_le_bytes(1) \o <<0, 1, 1, 216>>)
      [] item = "xyzi2" ->
           write_leaf_chunk(ID_XYZI, to_le_bytes(2) \o <<0, 0, 0, 1>> \o <<1, 0, 1, 255>>)
      [] item = "xyzi0" ->
           write_leaf_chunk(ID_XYZI, to_le_bytes(1) \o <<1, 1, 0, 0>>)
      [] item = "rgba" ->
           write_leaf_chunk(ID_RGBA, <<255, 255, 255, 255>> \o <<10, 20, 30, 40>>)
      [] item = "matl" ->
           write_leaf_chunk(ID_MATL, to_le_bytes(7) \o write_dict(Dict1(KEY_name, TXT_1)))
      [] item = "layr" ->
           write_leaf_chunk(ID_LAYR, to_le_bytes(0)
               \o write_dict(Dict1(KEY_name, TXT_0)) \o U32_MAX_BYTES)
      [] item = "ntrn" -> TransformItem(1, 0, Dict1(KEY_t, TXT_0_0_1))
      [] item = "ntrn_r" -> TransformItem(2, 5, Dict1(KEY_r, TXT_40))
      \* a frame whose `_r` is "0": no valid rotation byte
      [] item = "ntrn_bad_r" -> TransformItem(1, 0, Dict1(KEY_r, TXT_0))
      [] item = "ngrp" ->
           write_scene_node([t |-> "Group", attributes |-> EmptyDict,
                             children |-> <<2, 3>>], 1)
      [] item = "nshp" ->
           write_scene_node([t |-> "Shape", attributes |-> Dict1(KEY_name, TXT_1),
                             models |-> <<[model_id |-> 0,
                                           attributes |-> Dict1(KEY_f, TXT_0)]>>], 3)
      \* a dictionary key that is the single byte 0xFF: not UTF-8
      [] item = "matl_nonutf8" ->
           write_leaf_chunk(ID_MATL, to_le_bytes(7) \o to_le_bytes(1)
               \o write_string(<<255>>) \o write_string(TXT_1))
      \* three voxels declared, one present
      [] item = "xyzi_badcount" ->
           write_leaf_chunk(ID_XYZI, to_le_bytes(3) \o <<0, 1, 1, 216>>)
      \* a dictionary of 2^24 entries declared in a 4-byte rest
      [] item = "dict_badcount" ->
           write_leaf_chunk(ID_LAYR, to_le_bytes(0) \o <<0, 0, 0, 1>> \o <<0, 0, 0, 0>>)
      \* a model as write_model writes it: SIZE, then XYZI
      [] item = "model" ->
           write_leaf_chunk(ID_SIZE, to_le_bytes(2) \o to_le_bytes(2) \o to_le_bytes(2))
           \o write_leaf_chunk(ID_XYZI, to_le_bytes(1) \o <<0, 1, 1, 216>>)
      [] item = "model2" ->
           write_leaf_chunk(ID_SIZE, to_le_bytes(3) \o to_le_bytes(1) \o to_le_bytes(300))
           \o write_leaf_chunk(ID_XYZI, to_le_bytes(2) \o <<0, 0, 0, 1>> \o <<1, 0, 1, 255>>)
      \* an id that is no known leaf
      [] item = "unknown" -> write_leaf_chunk(ID_rOBJ, <<1, 2, 3>>)
      \* two of the three u32 of a size
      [] item = "size_short" ->
           write_leaf_chunk(ID_SIZE, to_le_bytes(2) \o to_le_bytes(2))
      \* a color and one byte more
      [] item = "rgba_odd" -> write_leaf_chunk(ID_RGBA, <<10, 20, 30, 40, 50>>)
      \* a transform that ends after its child
      [] item = "ntrn_short" ->
           write_leaf_chunk(ID_nTRN, to_le_bytes(0) \o write_dict(EmptyDict)
               \o to_le_bytes(1))
      \* two children declared, one present
      [] item = "ngrp_badcount" ->
           write_leaf_chunk(ID_nGRP, to_le_bytes(1) \o write_dict(EmptyDict)
               \o to_le_bytes(2) \o to_le_bytes(2))
      \* one model declared, none present
      [] item = "nshp_badcount" ->
           write_leaf_chunk(ID_nSHP, to_le_bytes(2) \o write_dict(EmptyDict)
               \o to_le_bytes(1))
      \* an RGBA chunk that carries the 256 colors of the default palette
      [] item = "rgba_default" ->
           write_palette_chunk([palette |-> DEFAULT_PALETTE])
      \* a PACK chunk as write_pack_chunk writes it, with the model it holds
      [] item = "pack" ->
           write_chunk(ID_PACK, to_le_bytes(1),
               Len(write_leaf_chunk(ID_SIZE,
                       to_le_bytes(2) \o to_le_bytes(2) \o to_le_bytes(2))))
           \o write_leaf_chunk(ID_SIZE,
                  to_le_bytes(2) \o to_le_bytes(2) \o to_le_bytes(2))
      \* a known leaf id on a chunk that has children
      [] item = "size_parent" ->
           write_chunk(ID_SIZE, to_le_bytes(2) \o to_le_bytes(2) \o to_le_bytes(2),
               Len(write_leaf_chunk(ID_XYZI, to_le_bytes(0))))
           \o write_leaf_chunk(ID_XYZI, to_le_bytes(0))

\* MAIN's children region for the items ks
Region(ks) == Flatten([j \in 1..Len(ks) |-> ItemBytes(ks[j])], 1)

\* the well-formed file around a children region
FileOf(region) ==
    MAGIC_NUMBER \o to_le_bytes(VERSION)
    \o write_chunk(ID_MAIN, <<>>, Len(region)) \o region

\* the length of the file header and the top-level chunk header
HEADER_LEN == Len(FileOf(<<>>))

\* the largest number of bytes cut off the end of the region or of the file
MaxCut == 13
\* the largest number of child chunks put into MAIN
MaxKids == 2

\* ids put in the place of "MAIN" on the top-level chunk
TopIds == <<ID_PACK, ID_SIZE, ID_RGBA, ID_rOBJ>>

Cut(s, n) == SubSeq(s, 1, Len(s) - n)

NoFault == [k |-> "none", n |-> 0]
Faults(ks) ==
    {NoFault, [k |-> "badmagic", n |-> 0]}
    \cup {[k |-> "prefix", n |-> n] : n \in 0..(HEADER_LEN - 1)}
    \cup {[k |-> "filecut", n |-> n] : n \in 1..MaxCut}
    \cup {[k |-> "kidcut", n |-> n] :
             n \in {m \in 1..MaxCut : m <= Len(Region(ks))}}

\* the file for the items ks with the damage f
Damaged(ks, f) ==
    CASE f.k = "none" -> FileOf(Region(ks))
      [] f.k = "badmagic" -> <<87>> \o Drop(FileOf(Region(ks)), 1)
      [] f.k = "prefix" -> SubSeq(FileOf(Region(ks)), 1, f.n)
      [] f.k = "filecut" -> Cut(FileOf(Region(ks)), f.n)
      [] f.k = "kidcut" -> FileOf(Cut(Region(ks), f.n))
      [] f.k = "topid" ->
           MAGIC_NUMBER \o to_le_bytes(VERSION)
           \o write_chunk(TopIds[f.n], <<>>, Len(Region(ks))) \o Region(ks)

\* the largest number of child chunks put into MAIN for the mapper
MapKids == 3

\* the chunks the mapper pairs
MapItems == {"size", "size3", "xyzi", "xyzi2"}

\* the largest number of child chunks put into MAIN for the round trip
RTKids == 3

\* well-formed chunks of every mapped kind
RTItems == {"model", "model2", "rgba", "layr", "ntrn", "ntrn_r", "ngrp",
            "nshp", "matl"}

FaultItems == {"size", "xyzi", "ntrn", "ntrn_bad_r", "matl_nonutf8",
               "xyzi_badcount", "dict_badcount", "unknown"}

\* the largest number of child chunks put around an invalid or unknown chunk
LeafKids == 3

\* one chunk of each known leaf id whose content fails its parser
InvalidItems == {"size_short", "xyzi_badcount", "rgba_odd", "matl_nonutf8",
                 "ntrn_short", "ngrp_badcount", "nshp_badcount",
                 "dict_badcount"}
LeafItems == InvalidItems \cup {"size", "xyzi", "rgba", "layr"}

\* chunks that are no known leaf and no MAIN
UnknownItems == {"unknown", "pack", "size_parent"}
UnkItems == UnknownItems \cup {"size", "xyzi", "rgba", "ntrn"}

\* the buffers handed to parse_chunk alone: an id, two sizes and a tail
\* the largest content_size and children_size declared, next to 2^31 - 1
MaxSize == 3
\* the largest number of bytes after the 12 bytes of the chunk header
MaxTail == 7

\* "SIZE", "MAIN", "rOBJ" and four bytes that are no UTF-8
ChunkIds == {ID_SIZE, ID_MAIN, ID_rOBJ, <<255, 79, 88, 32>>}
Sizes == {to_le_bytes(s) : s \in 0..MaxSize} \cup {<<255, 255, 255, 127>>}

\* the first h bytes of the header, and after a whole header n more bytes
ChunkBuffer(id, content_size, children_size, h, n) ==
    SubSeq(id \o content_size \o children_size, 1, h)
    \o [j \in 1..(IF h = 12 THEN n ELSE 0) |-> j]

\* files whose top-level chunk is MAIN or has another id
TopFaults == {NoFault} \cup {[k |-> "topid", n |-> n] : n \in 1..Len(TopIds)}
TopItems == {"size", "xyzi", "rgba", "rgba_default", "ntrn", "unknown"}
----------------------------------------------------------------------------
(* Actions of the decoder and the writer                                   *)

\* a producer puts one more child chunk into MAIN, up to max of them
Put(items, max) ==
    /\ dpc = "build"
    /\ Len(kids) < max
    /\ \E item \in items : kids' = Append(kids, item)
    /\ UNCHANGED <<dpc, fault, file, loaded, written, reloaded, rvars, fvars, tvars>>

\* load_bytes(file) on the file for kids, damaged by f
Load(f) ==
    /\ dpc = "build"
    /\ fault' = f
    /\ \E bytes \in {Damaged(kids, f)} :
           /\ file' = bytes
           /\ loaded' = load_bytes(bytes)
    /\ dpc' = "loaded"
    /\ UNCHANGED <<kids, written, reloaded, rvars, fvars, tvars>>

\* write_vox of the data load_bytes returned, overflow checks on
Write ==
    /\ dpc = "loaded"
    /\ loaded.k = "Ok"
    /\ written' = write_vox(loaded.data, TRUE)
    /\ dpc' = "written"
    /\ UNCHANGED <<kids, fault, file, loaded, reloaded, rvars, fvars, tvars>>

\* load_bytes of what write_vox wrote
Reload ==
    /\ dpc = "written"
    /\ written.k = "ok"
    /\ reloaded' = load_bytes(written.bytes)
    /\ dpc' = "reloaded"
    /\ UNCHANGED <<kids, fault, file, loaded, written, rvars, fvars, tvars>>

HasKid(item) == \E j \in 1..Len(kids) : kids[j] = item

Init == RotIdle /\ DecIdle /\ FrameIdle /\ WalkIdle

Next ==
    \/ Put(FaultItems, MaxKids)
    \/ \E f \in Faults(kids) : Load(f)

Spec == Init /\ [][Next]_vars

\* the mapper over sequences of SIZE and XYZI chunks
MapNext ==
    \/ Put(MapItems, MapKids)
    \/ Load(NoFault)

SpecMap == Init /\ [][MapNext]_vars

\* load, write, load again
RTNext ==
    \/ Put(RTItems, RTKids)
    \/ Load(NoFault)
    \/ Write
    \/ Reload

SpecRT == Init /\ [][RTNext]_vars

\* well-formed chunks around chunks whose content is invalid
LeafNext ==
    \/ Put(LeafItems, LeafKids)
    \/ Load(NoFault)

SpecLeaf == Init /\ [][LeafNext]_vars

\* well-formed chunks around chunks of unknown kind
UnkNext ==
    \/ Put(UnkItems, LeafKids)
    \/ Load(NoFault)

SpecUnk == Init /\ [][UnkNext]_vars

\* parse_chunk(bytes) on a buffer of its own
ParseChunk ==
    /\ dpc = "build"
    /\ kids = <<>>
    /\ \E id \in ChunkIds, content_size \in Sizes, children_size \in Sizes,
          h \in 0..12, n \in 0..MaxTail :
           \E bytes \in {ChunkBuffer(id, content_size, children_size, h, n)} :
               /\ file' = bytes
               /\ loaded' = parse_chunk(bytes)
    /\ dpc' = "chunked"
    /\ UNCHANGED <<kids, fault, written, reloaded, rvars, fvars, tvars>>

SpecChunk == Init /\ [][ParseChunk]_vars

\* files with and without a palette under MAIN and under other ids
TopNext ==
    \/ Put(TopItems, MaxKids)
    \/ \E f \in TopFaults : Load(f)

SpecTop == Init /\ [][TopNext]_vars

\* parse_voxel(input) on the four bytes of one voxel
ParseVoxel ==
    /\ dpc = "build"
    /\ kids = <<>>
    /\ \E x \in {0, 255}, i \in Byte :
           \E input \in {<<x, 1, 2, i>>} :
               /\ file' = input
               /\ loaded' = parse_voxel(input)
    /\ dpc' = "voxel"
    /\ UNCHANGED <<kids, fault, written, reloaded, rvars, fvars, tvars>>

SpecVoxel == Init /\ [][ParseVoxel]_vars

\* a DotVoxData a caller builds: one model of one voxel whose palette index
\* is i, any value of the u8 field Voxel::i
BuildVoxel(i) ==
    /\ dpc = "build"
    /\ loaded' =
           [k |-> "Ok",
            data |-> [version |-> VERSION,
                      models |-> <<[size |-> [x |-> 1, y |-> 1, z |-> 1],
                                    voxels |-> <<[x |-> 0, y |-> 0, z |-> 0,
                                                  i |-> i]>>]>>,
                      palette |-> <<>>, materials |-> <<>>, scenes |-> <<>>,
                      layers |-> <<>>]]
    /\ dpc' = "loaded"
    /\ UNCHANGED <<kids, fault, file, written, reloaded, rvars, fvars, tvars>>

\* write_vox of the data, overflow checks off (a release build)
WriteRelease ==
    /\ dpc = "loaded"
    /\ loaded.k = "Ok"
    /\ written' = write_vox(loaded.data, FALSE)
    /\ dpc' = "written"
    /\ UNCHANGED <<kids, fault, file, loaded, reloaded, rvars, fvars, tvars>>

IdxNext ==
    \/ \E i \in 0..255 : BuildVoxel(i)
    \/ Write
    \/ WriteRelease
    \/ Reload

SpecIdx == Init /\ [][IdxNext]_vars

\* the index byte of the one voxel in what write_vox wrote: after the
\* header, the header of MAIN, the SIZE chunk, the header of XYZI, the
\* count and x, y, z
IndexByte(bytes) == bytes[8 + 12 + 24 + 12 + 4 + 3 + 1]

\* C29: for every in-memory voxel index i that the Voxel type admits
\* (0..=255), write_vox emits the on-disk byte i + 1 without 8-bit overflow,
\* and decoding that byte gives back i.
C29_IndexPlusOne ==
    /\ dpc = "written" =>
           /\ written.k = "ok"
           /\ IndexByte(written.bytes) = loaded.data.models[1].voxels[1].i + 1
    /\ dpc = "reloaded" =>
           /\ reloaded.k = "Ok"
           /\ Len(reloaded.data.models) = 1
           /\ reloaded.data.models[1].voxels[1].i
                  = loaded.data.models[1].voxels[1].i
----------------------------------------------------------------------------
(* Claims about load_bytes on damaged files (Spec)                         *)

ChildTruncated ==
    /\ fault.k = "kidcut"
    /\ kids # <<>>
    /\ fault.n < Len(ItemBytes(kids[Len(kids)]))

\* C3: a buffer with a truncated header, a declared length larger than the
\* bytes that remain, a non-UTF-8 string in a dictionary or an invalid
\* rotation byte in a frame's `_r` makes load_bytes return Err.
C3_MalformedIsErr ==
    (/\ dpc = "loaded"
     /\ \/ fault.k \in {"prefix", "filecut"}
        \/ ChildTruncated
        \/ HasKid("matl_nonutf8")
        \/ HasKid("ntrn_bad_r"))
    => loaded.k = "Err"

\* C4: a child chunk of MAIN that is truncated, has a bad count, or is
\* followed by bytes that form no complete chunk makes load_bytes return
\* Err, never Ok with the chunks decoded before the fault.
C4_NoPartialAggregate ==
    (/\ dpc = "loaded"
     /\ \/ ChildTruncated
        \/ HasKid("xyzi_badcount")
        \/ HasKid("dict_badcount"))
    => loaded.k = "Err"
----------------------------------------------------------------------------
(* Claims about the mapper (SpecMap) and the round trip (SpecRT)           *)

\* C1: for every DotVoxData D that load_bytes produced,
\* load_bytes(write_vox(D)) is Ok and its version, models, palette, scenes
\* and layers equal those of D (materials are not compared).
C1_RoundTrip ==
    dpc = "reloaded" =>
        /\ reloaded.k = "Ok"
        /\ reloaded.data.version = loaded.data.version
        /\ reloaded.data.models = loaded.data.models
        /\ reloaded.data.palette = loaded.data.palette
        /\ reloaded.data.scenes = loaded.data.scenes
        /\ reloaded.data.layers = loaded.data.layers

RECURSIVE PairedModels(_, _, _)
\* the number of models a mapper that clears the buffered size on pairing
\* makes of the chunks ks[n..], buffered telling whether a size is buffered
PairedModels(ks, n, buffered) ==
    IF n > Len(ks) THEN 0
    ELSE IF ks[n] \in {"size", "size3"} THEN PairedModels(ks, n + 1, TRUE)
    ELSE IF buffered THEN 1 + PairedModels(ks, n + 1, FALSE)
    ELSE PairedModels(ks, n + 1, FALSE)

\* C5: a Voxels chunk becomes a Model only when a Size is buffered, and
\* pairing clears the buffer: each Size chunk gives at most one Model, and
\* a Voxels chunk with no unconsumed Size is dropped.
C5_PairingClearsSize ==
    dpc = "loaded" =>
        /\ loaded.k = "Ok"
        /\ Len(loaded.data.models) = PairedModels(kids, 1, FALSE)

\* C25: for a DotVoxData with k models, for every k >= 0 and in particular
\* k >= 2, decoding the output of write_vox yields exactly k models, equal
\* to the originals and in the same order: the PACK chunk written before the
\* models when k >= 2 does not hide or alter the SIZE/XYZI chunks after it.
C25_ModelsSurvivePack ==
    dpc = "reloaded" =>
        /\ reloaded.k = "Ok"
        /\ Len(reloaded.data.models) = Len(loaded.data.models)
        /\ reloaded.data.models = loaded.data.models

\* C27: for any DotVoxData D, write_vox emits one LAYR chunk per element of
\* D.layers in order, so load_bytes(write_vox(D)).layers equals D.layers;
\* materials are the only component write_vox leaves out.
C27_LayersSurviveWriter ==
    dpc = "reloaded" =>
        /\ reloaded.k = "Ok"
        /\ reloaded.data.layers = loaded.data.layers
----------------------------------------------------------------------------
(* The containers the leaf parsers ask for (Spec)                          *)

\* a container of cap elements asked for with the input i left, one element
\* taking at least min bytes of input
Request(cap, i, min) == [cap |-> cap, left |-> Len(i), min |-> min]

\* nom::multi::count's Vec::with_capacity: the count, at most 65536 bytes'
\* worth of elements of elem_size bytes each
count_capacity(n, elem_size) ==
    IF n < 65536 \div elem_size THEN n ELSE 65536 \div elem_size

\* what r, an Ok carrying a count and the input after it, makes count ask for
CountRequest(r, elem_size, min) ==
    IF r.k = "ok" THEN {Request(count_capacity(r.val, elem_size), r.rest, min)}
    ELSE {}

\* parse_dict: Dict::with_capacity(n), reached when validate_count let n pass
DictRequest(r) ==
    IF r.k = "ok" THEN {Request(r.val, r.rest, 8)} ELSE {}
parse_dict_requests(i) ==
    DictRequest(Bind(le_u32(i), LAMBDA r1, n : validate_count(r1, n, 8)))

\* parse_voxels: count(parse_voxel, n as usize), a Voxel being four bytes
parse_voxels_requests(i) == CountRequest(le_u32(i), 4, 4)

\* parse_scene_transform up to frame_count: count(parse_dict, frame_count),
\* a Dict being a 48-byte HashMap read from at least four bytes
parse_scene_transform_requests(i) ==
    CountRequest(
        Bind(parse_node_header(i), LAMBDA r1, header :
        Bind(le_u32(r1), LAMBDA r2, child :
        Bind(le_ignored(r2), LAMBDA r3, ignored :
        Bind(le_u32(r3), LAMBDA r4, layer_id : le_u32(r4))))),
        48, 4)

\* parse_scene_group up to child_count: count(le_u32, child_count)
parse_scene_group_requests(i) ==
    CountRequest(
        Bind(parse_node_header(i), LAMBDA r1, header : le_u32(r1)), 4, 4)

\* parse_scene_shape up to model_count: count(parse_scene_shape_model, ..),
\* a ShapeModel being 56 bytes read from at least eight
parse_scene_shape_requests(i) ==
    CountRequest(
        Bind(parse_node_header(i), LAMBDA r1, header : le_u32(r1)), 56, 8)

\* the attributes dictionary that follows the id of a node, material or layer
header_requests(i) ==
    IF Len(i) < 4 THEN {} ELSE parse_dict_requests(Drop(i, 4))

\* the containers asked for while build_chunk decodes a childless chunk
build_chunk_requests(id, chunk_content) ==
    IF id = ID_XYZI THEN parse_voxels_requests(chunk_content)
    ELSE IF id = ID_MATL \/ id = ID_LAYR THEN header_requests(chunk_content)
    ELSE IF id = ID_nTRN
    THEN header_requests(chunk_content)
         \cup parse_scene_transform_requests(chunk_content)
    ELSE IF id = ID_nGRP
    THEN header_requests(chunk_content)
         \cup parse_scene_group_requests(chunk_content)
    ELSE IF id = ID_nSHP
    THEN header_requests(chunk_content)
         \cup parse_scene_shape_requests(chunk_content)
    ELSE {}

\* the containers asked for while the child chunk called item is decoded
ItemRequests(item) ==
    build_chunk_requests(SubSeq(ItemBytes(item), 1, 4), Drop(ItemBytes(item), 12))

\* C11: every element count read from the input (dictionary entries,
\* voxels, transform frames, group children, shape models) is compared with
\* remaining_bytes / minimum_element_size before a container sized by it is
\* requested, so no requested capacity exceeds what the remaining input
\* permits.
C11_CapacityFitsInput ==
    (dpc = "loaded" /\ fault = NoFault) =>
        \A j \in 1..Len(kids) : \A q \in ItemRequests(kids[j]) :
            q.cap <= q.left \div q.min
----------------------------------------------------------------------------
(* Claims about the writer (SpecRT)                                        *)

\* the model ids of the Shape nodes of scenes
ModelIds(nodes) ==
    UNION {{nodes[j].models[m].model_id : m \in 1..Len(nodes[j].models)} :
              j \in {n \in 1..Len(nodes) : nodes[n].t = "Shape"}}

\* C12: decoding the output of write_vox gives a scenes sequence of the same
\* length in which node j has the same variant, child, children, model ids,
\* attributes, layer_id and frames as the original node j, so every integer
\* reference resolves to the same referent: a child to the same node, a
\* model id to the same model.
C12_WriterLinkage ==
    dpc = "reloaded" =>
        /\ reloaded.k = "Ok"
        /\ reloaded.data.scenes = loaded.data.scenes
        /\ \A id \in ModelIds(loaded.data.scenes) :
               id < Len(loaded.data.models) =>
                   /\ id < Len(reloaded.data.models)
                   /\ reloaded.data.models[id + 1] = loaded.data.models[id + 1]


\* the children region of MAIN in a written file: what follows the 8 bytes of
\* the file header and the 12 bytes of the MAIN header
ChildrenOf(bytes) == Drop(bytes, 20)

\* C13: the output of write_vox is "VOX ", the version as u32 LE, "MAIN", a
\* content length of 0, a children length N and N bytes; parsing it consumes
\* every byte, and the N bytes split into complete chunks with nothing left
\* over.
C13_MainFramesChildren ==
    (dpc \in {"written", "reloaded"} /\ written.k = "ok") =>
        /\ Len(written.bytes) >= 20
        /\ SubSeq(written.bytes, 1, 4) = MAGIC_NUMBER
        /\ SubSeq(written.bytes, 5, 8) = to_le_bytes(loaded.data.version)
        /\ SubSeq(written.bytes, 9, 12) = ID_MAIN
        /\ SubSeq(written.bytes, 13, 16) = to_le_bytes(0)
        /\ SubSeq(written.bytes, 17, 20) = to_le_bytes(Len(written.bytes) - 20)
        /\ parse_vox_file(written.bytes).k = "ok"
        /\ parse_vox_file(written.bytes).rest = <<>>
        /\ many0_parse_chunk(ChildrenOf(written.bytes), <<>>).k = "ok"
        /\ many0_parse_chunk(ChildrenOf(written.bytes), <<>>).rest = <<>>

\* a file with two models (a PACK chunk and its children), a scene node and
\* the palette was written
C13_PackedFileWritten ==
    /\ dpc = "written"
    /\ written.k = "ok"
    /\ Len(loaded.data.models) = 2
    /\ Len(loaded.data.scenes) = 1
----------------------------------------------------------------------------
(* Claims about invalid and unknown chunks (SpecLeaf, SpecUnk)             *)

\* kids without the chunks of the set gone
Without(gone) == SelectSeq(kids, LAMBDA item : item \notin gone)

\* the id and the content of the chunk called item
IdOf(item) == SubSeq(ItemBytes(item), 1, 4)
ContentOf(item) ==
    SubSeq(ItemBytes(item), 13, 12 + from_le_bytes(SubSeq(ItemBytes(item), 5, 8)))

\* what the mapper makes of a Main whose children are all skipped
DefaultData ==
    [version |-> VERSION, models |-> <<>>, palette |-> DEFAULT_PALETTE,
     materials |-> <<>>, scenes |-> <<>>, layers |-> <<>>]

\* every chunk of kids that is in the set decodes to the variant t with val
DecodeTo(items, t, val(_)) ==
    \A j \in 1..Len(kids) :
        kids[j] \in items =>
            parse_chunk(ItemBytes(kids[j])) = Ok(<<>>, [t |-> t, val |-> val(kids[j])])

\* load_bytes of the file made of kids without the chunks of the set gone
LoadedWithout(gone) == load_bytes(FileOf(Region(Without(gone))))

----------------------------------------------------------------------------
(* Claims about parse_chunk on a buffer of its own (SpecChunk)             *)

\* fewer bytes follow the 12-byte header of b than its two sizes declare
BodyShort(b) ==
    \/ from_le_bytes(SubSeq(b, 5, 8)) > Len(b) - 12
    \/ from_le_bytes(SubSeq(b, 9, 12))
           > Len(b) - 12 - from_le_bytes(SubSeq(b, 5, 8))

\* b without its header and the content and children its sizes declare
AfterChunk(b) ==
    Drop(b, 12 + from_le_bytes(SubSeq(b, 5, 8)) + from_le_bytes(SubSeq(b, 9, 12)))

IsErr(r) == r.k \in {"error", "failure"}

\* C16 as claimed: parse_chunk returns an error when fewer than 12 header
\* bytes are present or when fewer than content_size + children_size bytes
\* follow the header; otherwise the remaining input it returns is exactly the
\* bytes after header + content + children.
C16_ErrorOnlyWhenShort ==
    dpc = "chunked" =>
        IF Len(file) < 12 \/ BodyShort(file)
        THEN IsErr(loaded)
        ELSE loaded.k = "ok" /\ loaded.rest = AfterChunk(file)

\* C16: parse_chunk returns an error when fewer than 12 header bytes are
\* present, when fewer than content_size + children_size bytes follow the
\* header, or when the four id bytes are no UTF-8; otherwise the remaining
\* input it returns is exactly the bytes after header + content + children.
C16_ErrorWhenShortOrBadId ==
    dpc = "chunked" =>
        IF Len(file) < 12 \/ BodyShort(file) \/ ~IsUtf8(SubSeq(file, 1, 4))
        THEN IsErr(loaded)
        ELSE loaded.k = "ok" /\ loaded.rest = AfterChunk(file)

\* a chunk with content and children was parsed and bytes were left over
C16_ChunkParsedWithRest ==
    /\ dpc = "chunked"
    /\ loaded.k = "ok"
    /\ from_le_bytes(SubSeq(file, 5, 8)) > 0
    /\ from_le_bytes(SubSeq(file, 9, 12)) > 0
    /\ Len(loaded.rest) > 0
----------------------------------------------------------------------------
(* Claims about the palette and the top-level chunk (SpecTop)              *)

\* the top-level chunk of file decodes to Main
TopIsMain ==
    /\ parse_chunk(Drop(file, 8)).k = "ok"
    /\ parse_chunk(Drop(file, 8)).val.t = "Main"

NoRGBA == ~HasKid("rgba") /\ ~HasKid("rgba_default")

\* the palette load_bytes returns for kids followed by an RGBA chunk that
\* carries the 256 default colors
PaletteWithDefaultRGBA ==
    load_bytes(FileOf(Region(Append(kids, "rgba_default")))).data.palette

EmptyData(version) ==
    [version |-> version, models |-> <<>>, palette |-> <<>>,
     materials |-> <<>>, scenes |-> <<>>, layers |-> <<>>]

NotVox == [k |-> "Err", msg |-> "Not a valid MagicaVoxel .vox file"]

\* C19: load_bytes returns Err("Not a valid MagicaVoxel .vox file"), and no
\* DotVoxData, for every buffer whose first four bytes are not "VOX " or
\* that ends before the 4-byte version and the 12-byte top-level chunk
\* header are complete.
C19_BadHeaderIsErr ==
    (/\ dpc = "loaded"
     /\ \/ Len(file) < HEADER_LEN
        \/ SubSeq(file, 1, 4) # MAGIC_NUMBER)
    => loaded = NotVox

\* a file that has the magic and ends one byte before the end of the
\* top-level chunk header was loaded
C19_HeaderOneByteShort ==
    /\ dpc = "loaded"
    /\ Len(file) = HEADER_LEN - 1
    /\ SubSeq(file, 1, 4) = MAGIC_NUMBER
    /\ loaded = NotVox
----------------------------------------------------------------------------
(* Claims about parse_voxel (SpecVoxel)                                    *)

\* C20: parse_voxel maps an on-disk color index b to the in-memory index
\* max(b - 1, 0) for every b in 0..255; on-disk 0 and 1 both give 0 and the
\* result is never 255.
C20_IndexSaturates ==
    dpc = "voxel" =>
        /\ loaded.k = "ok"
        /\ loaded.val.i = (IF file[4] = 0 THEN 0 ELSE file[4] - 1)
        /\ (file[4] \in {0, 1} => loaded.val.i = 0)
        /\ loaded.val.i # 255

\* a voxel with the on-disk index 0 was parsed
C20_IndexZeroParsed ==
    /\ dpc = "voxel"
    /\ file[4] = 0
    /\ loaded.k = "ok"
    /\ loaded.val.i = 0
MakeA(byte) ==
    /\ rpc = "idle"
    /\ in_a = -1
    /\ in_a' = byte
    /\ rot_a' = from_byte(byte)
    /\ UNCHANGED <<rpc, in_b, rot_b, rot_p, dvars, fvars, tvars>>

MakeB(byte) ==
    /\ rpc = "idle"
    /\ rot_a.k = "rot"
    /\ in_b = -1
    /\ in_b' = byte
    /\ rot_b' = from_byte(byte)
    /\ UNCHANGED <<rpc, in_a, rot_a, rot_p, dvars, fvars, tvars>>

Multiply ==
    /\ rpc = "idle"
    /\ rot_a.k = "rot"
    /\ rot_b.k = "rot"
    /\ rot_p' = [k |-> "rot", byte |-> mul(rot_a.byte, rot_b.byte)]
    /\ rpc' = "multiplied"
    /\ UNCHANGED <<in_a, in_b, rot_a, rot_b, dvars, fvars, tvars>>

\* the product becomes the left operand of the next product
Chain ==
    /\ rpc = "multiplied"
    /\ in_a' = rot_p.byte
    /\ rot_a' = rot_p
    /\ in_b' = -1
    /\ rot_b' = None
    /\ rot_p' = None
    /\ rpc' = "idle"
    /\ UNCHANGED <<dvars, fvars, tvars>>

\* to_quat_scale and to_cols_array_2d of the Rotation from_byte returned
Decompose ==
    /\ rpc = "idle"
    /\ rot_a.k = "rot"
    /\ in_b = -1
    /\ rot_p' = to_quat_scale(rot_a.byte)
    /\ rot_b' = to_cols_array_2d(rot_a.byte)
    /\ rpc' = "decomposed"
    /\ UNCHANGED <<in_a, in_b, rot_a, dvars, fvars, tvars>>

RotInit == RotIdle /\ DecIdle /\ FrameIdle /\ WalkIdle

RotNext ==
    \/ \E byte \in Byte : MakeA(byte)
    \/ \E byte \in Byte : MakeB(byte)
    \/ Multiply
    \/ Chain
    \/ Decompose

SpecRot == RotInit /\ [][RotNext]_vars


\* C6: for valid rotation bytes a and b, to_cols_array_2d(a * b) is the
\* matrix product of to_cols_array_2d(a) and to_cols_array_2d(b).
C6_MulIsMatrixProduct ==
    rpc = "multiplied" =>
        /\ to_cols_array_2d(rot_p.byte).k = "mat"
        /\ to_cols_array_2d(rot_p.byte).cols =
               MatMul(to_cols_array_2d(rot_a.byte).cols,
                      to_cols_array_2d(rot_b.byte).cols)

\* a row-swapping rotation was multiplied by one with a negative row, and
\* the product is neither of them
C6_SignedProduct ==
    /\ rpc = "multiplied"
    /\ in_a = 2
    /\ in_b = 20
    /\ rot_p.byte \notin {in_a, in_b, IDENTITY}

\* C10: from_byte accepts a byte exactly when the row indices in bits 0-1
\* and bits 2-3 differ and neither is 3; every other byte comes back as an
\* invalid-rotation error, not as a Rotation.
C10_InvalidIsError ==
    in_a # -1 =>
        IF /\ in_a % 4 # (in_a \div 4) % 4
           /\ in_a % 4 # 3
           /\ (in_a \div 4) % 4 # 3
        THEN rot_a = [k |-> "rot", byte |-> in_a]
        ELSE rot_a.k = "err"

\* both operands are among the 48 encodings with bit 7 clear
BothValid == rot_a.byte < 128 /\ rot_b.byte < 128

\* C21: for all valid rotation bytes a and b, the byte of a * b has two
\* explicit row indices that differ, neither is 3, and bit 7 is clear, so the
\* result is again one of the 48 valid encodings after any chain of
\* compositions.
C21_MulIsClosed ==
    (rpc = "multiplied" /\ BothValid) =>
        /\ index_nz1(rot_p.byte) # index_nz2(rot_p.byte)
        /\ index_nz1(rot_p.byte) # 3
        /\ index_nz2(rot_p.byte) # 3
        /\ Bit(rot_p.byte, 7) = 0
        /\ rot_p.byte \in 0..127

\* two valid rotations with all three signs negative were multiplied
C21_NegativesMultiplied ==
    /\ rpc = "multiplied"
    /\ rot_a.byte = 121
    /\ rot_b.byte = 114
    /\ rot_p.byte < 128

\* C22: Rotation::IDENTITY expands to the 3x3 identity matrix and is a
\* two-sided neutral element: IDENTITY * a and a * IDENTITY both have the
\* byte of a, for all 48 valid a.
C22_IdentityIsNeutral ==
    (rpc = "multiplied" /\ BothValid) =>
        /\ to_cols_array_2d(IDENTITY) = [k |-> "mat", cols |-> Identity3]
        /\ rot_a.byte = IDENTITY => rot_p.byte = rot_b.byte
        /\ rot_b.byte = IDENTITY => rot_p.byte = rot_a.byte

\* a rotation with negative rows was multiplied by IDENTITY on its right
C22_TimesIdentity ==
    /\ rpc = "multiplied"
    /\ rot_a.byte = 98
    /\ rot_b.byte = IDENTITY
    /\ rot_p.byte = 98

\* C23: for each of the 48 valid rotation bytes, to_quat_scale returns
\* (q, s) with s = (1,1,1) or (-1,-1,-1) such that matrix(q) x diag(s) equals
\* to_cols_array_2d(byte) entry by entry (the quaternions are held exactly,
\* so the entries are equal and not only within 1e-5); s is (-1,-1,-1)
\* exactly when the dense matrix has determinant -1.
C23_QuatScaleIsMatrix ==
    (rpc = "decomposed" /\ rot_a.byte < 128) =>
        /\ rot_p.k = "qs"
        /\ rot_b.k = "mat"
        /\ rot_p.scale \in {si, sf}
        /\ \A c \in 0..2 : \A r \in 0..2 :
               quat_scale_mat(rot_p.quat, rot_p.scale)[c][r]
                   = rot_p.quat.n * rot_b.cols[c][r]
        /\ rot_p.scale = sf <=> Det3(rot_b.cols) = -1

\* a rotation whose matrix has determinant -1 was decomposed
C23_FlipDecomposed ==
    /\ rpc = "decomposed"
    /\ rot_a.byte = 20
    /\ rot_p.k = "qs"
    /\ rot_p.scale = sf

\* C28: every byte that Rotation::from_byte accepts is one of the 48 valid
\* 7-bit encodings (bit 7 clear), so for every accepted byte to_quat_scale
\* and to_cols_array_2d return a value without an out-of-range index into
\* their tables.
C28_AcceptedIsDecomposable ==
    rpc = "decomposed" =>
        /\ rot_a.byte < 128
        /\ rot_p.k = "qs"
        /\ rot_b.k = "mat"
----------------------------------------------------------------------------
(* Frames queried through their accessors (SpecFrame)                      *)

\* the most pieces a text is typed from
MaxToks == 3

\* "4294967296": past u8, i32 and u32
TXT_BIG == <<52, 50, 57, 52, 57, 54, 55, 50, 57, 54>>
TXT_3 == <<51>>
TXT_5 == <<53>>
TXT_x == <<120>>
TXT_SPACE == <<32>>
\* "-1 "
TXT_M1_ == <<45, 49, 32>>

\* the pieces of attribute texts
Toks == {TXT_0, TXT_3, TXT_5, TXT_40, TXT_x, TXT_SPACE, TXT_M1_, TXT_BIG}

\* one more piece of the text; the ten digits only as its start
Type(tok) ==
    /\ fpc = "type"
    /\ Len(ftext) < MaxToks
    /\ tok = TXT_BIG => ftext = <<>>
    /\ ftext' = Append(ftext, tok)
    /\ UNCHANGED <<fpc, fkey, fout, rvars, dvars, tvars>>

\* the frame whose attributes hold the text under key, or nothing
FrameOf(key, text) ==
    FrameNew(IF key = <<>> THEN EmptyDict ELSE Dict1(key, text))

\* the three accessors called on the frame
Query(key) ==
    /\ fpc = "type"
    /\ fkey' = key
    /\ \E frame \in {FrameOf(key, Flatten(ftext, 1))} :
           fout' = [orientation |-> orientation(frame),
                    position |-> position(frame),
                    frame_index |-> frame_index(frame)]
    /\ fpc' = "queried"
    /\ UNCHANGED <<ftext, rvars, dvars, tvars>>

FrameNext ==
    \/ \E tok \in Toks : Type(tok)
    \/ \E key \in {<<>>, KEY_r, KEY_t, KEY_f} : Query(key)

SpecFrame == Init /\ [][FrameNext]_vars

\* fout holds neither a failure nor a panic
Returned(r) == r.k \in {"none", "some"}

\* C9: orientation(), position() and frame_index() return None, and never
\* fail or panic, when the key is absent, the text is not a number, the
\* number is out of range, or `_r` is a number that is no rotation ("0",
\* "3", "5").
C9_MalformedIsNone ==
    fpc = "queried" =>
        /\ Returned(fout.orientation)
        /\ Returned(fout.position)
        /\ Returned(fout.frame_index)
        /\ fkey = <<>> =>
               fout = [orientation |-> None, position |-> None,
                       frame_index |-> None]
        /\ ftext \in {<<TXT_x>>, <<TXT_BIG>>, <<TXT_SPACE>>, <<>>} =>
               fout = [orientation |-> None, position |-> None,
                       frame_index |-> None]
        /\ ftext \in {<<TXT_0>>, <<TXT_3>>, <<TXT_5>>} =>
               fout.orientation = None
----------------------------------------------------------------------------
(* iterate_vox_tree over small scene trees (SpecWalk)                      *)

\* the most nodes of a scene
MaxNodes == 4

\* the frames a Transform node may carry: none, `_t` = "0 0 1", `_r` = "40",
\* and `_t` = "x", which is no integer
FrameChoices ==
    {EmptyDict, Dict1(KEY_t, TXT_0_0_1), Dict1(KEY_r, TXT_40),
     Dict1(KEY_t, TXT_x)}

\* the nodes whose parent is i, in rising order
RECURSIVE ChildrenFrom(_, _, _, _)
ChildrenFrom(par, i, j, n) ==
    IF j > n - 1 THEN <<>>
    ELSE (IF par[j] = i THEN <<j>> ELSE <<>>) \o ChildrenFrom(par, i, j + 1, n)

\* node i of the scene with n nodes, kinds kd, parents par and frames fr;
\* a Shape holds one model, at an odd index two
NodeOf(i, n, kd, par, fr) ==
    IF kd[i] = "T"
    THEN [t |-> "Transform", attributes |-> EmptyDict,
          frames |-> <<FrameNew(fr[i])>>,
          child |-> ChildrenFrom(par, i, 1, n)[1], layer_id |-> 0]
    ELSE IF kd[i] = "G"
    THEN [t |-> "Group", attributes |-> EmptyDict,
          children |-> ChildrenFrom(par, i, 1, n)]
    ELSE [t |-> "Shape", attributes |-> EmptyDict,
          models |-> [m \in 1..(1 + (i % 2)) |->
                         [model_id |-> m - 1, attributes |-> EmptyDict]]]

\* the kinds and parents of the trees of n nodes with a Transform root:
\* every Transform has one child, every Shape none
Shapes(n) ==
    {x \in [0..(n - 1) -> {"T", "G", "S"}] \X [1..(n - 1) -> 0..(n - 2)] :
        /\ x[1][0] = "T"
        /\ \A j \in 1..(n - 1) : x[2][j] < j
        /\ \A i \in 0..(n - 1) :
              /\ x[1][i] = "T" => Len(ChildrenFrom(x[2], i, 1, n)) = 1
              /\ x[1][i] = "S" => Len(ChildrenFrom(x[2], i, 1, n)) = 0}

\* a frame for every Transform node of kd
FramesFor(kd, n) ==
    {fr \in [0..(n - 1) -> FrameChoices] :
        \A i \in 0..(n - 1) : kd[i] # "T" => fr[i] = EmptyDict}

\* the tree-shaped scenes of n nodes
Trees(n) ==
    UNION {{[i \in 1..n |-> NodeOf(i - 1, n, x[1], x[2], fr)] :
               fr \in FramesFor(x[1], n)} : x \in Shapes(n)}

\* placeholder::SCENES.  The layer_id of the root, u32::MAX, is held as -1
\* (the same 32 bits read as i32); the traversal does not read it
SCENES ==
    <<[t |-> "Transform", attributes |-> EmptyDict,
       frames |-> <<FrameNew(EmptyDict)>>, child |-> 1,
       layer_id |-> -1],
      [t |-> "Group", attributes |-> EmptyDict, children |-> <<2>>],
      [t |-> "Transform", attributes |-> EmptyDict,
       frames |-> <<FrameNew(Dict1(KEY_t, TXT_0_0_1))>>, child |-> 3,
       layer_id |-> 0],
      [t |-> "Shape", attributes |-> EmptyDict,
       models |-> <<[model_id |-> 0, attributes |-> EmptyDict]>>]>>

SceneSet == UNION {Trees(n) : n \in 2..MaxNodes} \cup {SCENES}

WalkInit ==
    /\ RotIdle /\ DecIdle /\ FrameIdle
    /\ tpc = "start"
    /\ scenes \in SceneSet
    /\ node_stack = <<>>
    /\ calls = <<>>
    /\ pushed = <<>>

Entry(node, translation, rotation, index) ==
    [node |-> node, translation |-> translation, rotation |-> rotation,
     index |-> index]

Top == node_stack[Len(node_stack)]
Pop(stack) == SubSeq(stack, 1, Len(stack) - 1)
\* node_stack.last_mut().unwrap().3 += 1
Bump(stack) == [stack EXCEPT ![Len(stack)].index = @ + 1]

\* the match on vox_tree.scenes[0] before the loop
Root ==
    /\ tpc = "start"
    /\ IF scenes[1].t = "Transform"
       THEN /\ node_stack' = <<Entry(scenes[1].child, <<0, 0, 0>>, Identity3, 0)>>
            /\ pushed' = <<scenes[1].child>>
            /\ tpc' = "loop"
       ELSE /\ tpc' = "panic"
            /\ UNCHANGED <<node_stack, pushed>>
    /\ UNCHANGED <<scenes, calls, rvars, dvars, fvars>>

\* the loop's condition fails
Exit ==
    /\ tpc = "loop"
    /\ node_stack = <<>>
    /\ tpc' = "done"
    /\ UNCHANGED <<scenes, node_stack, calls, pushed, rvars, dvars, fvars>>

\* one iteration at a Transform node
TransformArm ==
    /\ tpc = "loop"
    /\ node_stack # <<>>
    /\ Top.node < Len(scenes)
    /\ scenes[Top.node + 1].t = "Transform"
    /\ \E translation \in {arm_translation(scenes[Top.node + 1].frames[1],
                                           Top.translation)},
          rotated \in {arm_orientation(scenes[Top.node + 1].frames[1],
                                           Top.rotation)} :
          IF translation.k # "ok" \/ rotated.k # "ok"
          THEN /\ tpc' = "panic"
               /\ UNCHANGED <<node_stack, pushed>>
          ELSE IF Top.index = 0
          THEN /\ node_stack' =
                      Append(Bump(node_stack),
                             Entry(scenes[Top.node + 1].child, translation.val,
                                   rotated.val, 0))
               /\ pushed' = Append(pushed, scenes[Top.node + 1].child)
               /\ UNCHANGED tpc
          ELSE /\ node_stack' = Pop(node_stack)
               /\ UNCHANGED <<tpc, pushed>>
    /\ UNCHANGED <<scenes, calls, rvars, dvars, fvars>>

\* one iteration at a Group node
GroupArm ==
    /\ tpc = "loop"
    /\ node_stack # <<>>
    /\ Top.node < Len(scenes)
    /\ scenes[Top.node + 1].t = "Group"
    /\ IF Top.index < Len(scenes[Top.node + 1].children)
       THEN /\ node_stack' =
                   Append(Bump(node_stack),
                          Entry(scenes[Top.node + 1].children[Top.index + 1],
                                Top.translation, Top.rotation, 0))
            /\ pushed' = Append(pushed,
                                scenes[Top.node + 1].children[Top.index + 1])
       ELSE /\ node_stack' = Pop(node_stack)
            /\ UNCHANGED pushed
    /\ UNCHANGED <<tpc, scenes, calls, rvars, dvars, fvars>>

\* one iteration at a Shape node: the callback for every model, then the
\* pop and the parent's index raised
ShapeArm ==
    /\ tpc = "loop"
    /\ node_stack # <<>>
    /\ Top.node < Len(scenes)
    /\ scenes[Top.node + 1].t = "Shape"
    /\ calls' = calls \o
           [m \in 1..Len(scenes[Top.node + 1].models) |->
               [node |-> Top.node, model |-> m,
                model_id |-> scenes[Top.node + 1].models[m].model_id,
                translation |-> Top.translation, rotation |-> Top.rotation]]
    /\ node_stack' = IF Len(node_stack) > 1 THEN Bump(Pop(node_stack))
                     ELSE Pop(node_stack)
    /\ UNCHANGED <<tpc, scenes, pushed, rvars, dvars, fvars>>

WalkNext == Root \/ Exit \/ TransformArm \/ GroupArm \/ ShapeArm

SpecWalk == WalkInit /\ [][WalkNext]_vars

\* the loop goes on while an iteration is possible
SpecWalkLive == WalkInit /\ [][WalkNext]_vars /\ WF_vars(WalkNext)

\* how often the callback was called for model m of the Shape node n
CallsFor(n, m) ==
    Cardinality({c \in 1..Len(calls) : calls[c].node = n /\ calls[c].model = m})

\* how often node n was pushed on the stack
PushesOf(n) == Cardinality({p \in 1..Len(pushed) : pushed[p] = n})

\* C7: over a tree-shaped scene with a Transform root, iterate_vox_tree
\* descends once into every child of every node, Transform or Shape, and
\* calls the callback exactly once for each model of each Shape node.
C7_EveryChildOnce ==
    tpc = "done" =>
        /\ \A n \in 1..(Len(scenes) - 1) : PushesOf(n) = 1
        /\ \A n \in 1..(Len(scenes) - 1) :
               scenes[n + 1].t = "Shape" =>
                   \A m \in 1..Len(scenes[n + 1].models) : CallsFor(n, m) = 1

\* C8: the entry a Transform node pushes holds its own translation plus
\* the `_t` delta transformed by its own accumulated rotation.
C8_DeltaRotated ==
    \A j \in 2..Len(node_stack) :
        LET parent == node_stack[j - 1]
            frame == scenes[parent.node + 1].frames[1]
        IN  (/\ scenes[parent.node + 1].t = "Transform"
             /\ DictHas(frame.attributes, KEY_t))
            => node_stack[j].translation =
                   VecAdd(parent.translation,
                          transform(translation_delta(frame.attributes[KEY_t]).val,
                                    parent.rotation))

\* C24: traversing Transform(child=1) -> Group(children=[2]) ->
\* Transform(frames=[{_t: "0 0 1"}], child=3) -> Shape(models=[model 0]) with
\* a model of size 2x2x2 invokes the callback exactly once, with accumulated
\* translation (0,0,1) and identity rotation, giving an element[0][0][0]
\* position of (-1,-1,0).
C24_CanonicalScene ==
    (tpc = "done" /\ scenes = SCENES) =>
        /\ Len(calls) = 1
        /\ calls[1].model_id = 0
        /\ calls[1].translation = <<0, 0, 1>>
        /\ calls[1].rotation = Identity3
        /\ element_position(<<2, 2, 2>>, calls[1].translation, calls[1].rotation)
               = <<-1, -1, 0>>

\* the traversal of the canonical scene ended after a call of the callback
C24_CanonicalWalked ==
    /\ tpc = "done"
    /\ scenes = SCENES
    /\ node_stack = <<>>
    /\ calls # <<>>

\* the node that refers to node i as its child or as one of its children
ParentOf(i) ==
    CHOOSE p \in 0..(Len(scenes) - 1) :
        \/ scenes[p + 1].t = "Transform" /\ scenes[p + 1].child = i
        \/ /\ scenes[p + 1].t = "Group"
           /\ \E j \in 1..Len(scenes[p + 1].children) :
                  scenes[p + 1].children[j] = i

\* one Transform node folded into the accumulated transform acc, as the
\* Transform arm folds it
FoldStep(frame, acc) ==
    IF acc.k # "ok" THEN acc
    ELSE IF \/ arm_translation(frame, acc.translation).k # "ok"
            \/ arm_orientation(frame, acc.rotation).k # "ok"
    THEN [k |-> "panic"]
    ELSE [k |-> "ok",
          translation |-> arm_translation(frame, acc.translation).val,
          rotation |-> arm_orientation(frame, acc.rotation).val]

RECURSIVE PathFold(_)
\* the fold over the Transform nodes on the path from scenes[0] to node i,
\* both included, starting from (zero translation, identity rotation)
PathFold(i) ==
    IF scenes[i + 1].t = "Transform"
    THEN FoldStep(scenes[i + 1].frames[1],
                  IF i = 0
                  THEN [k |-> "ok", translation |-> <<0, 0, 0>>,
                        rotation |-> Identity3]
                  ELSE PathFold(ParentOf(i)))
    ELSE PathFold(ParentOf(i))

\* C26: the transform handed to the callback for a Shape is the fold,
\* starting from (zero translation, identity rotation), over every Transform
\* node on the path from scenes[0] to the Shape, scenes[0] itself included:
\* each contributes the `_t` and `_r` of its frames[0] only, an absent key
\* contributes nothing, and Group nodes contribute nothing.
C26_FoldFromRoot ==
    \A c \in 1..Len(calls) :
        PathFold(calls[c].node) =
            [k |-> "ok", translation |-> calls[c].translation,
             rotation |-> calls[c].rotation]

RECURSIVE DepthOf(_)
\* the number of edges from scenes[0] to node i
DepthOf(i) == IF i = 0 THEN 0 ELSE 1 + DepthOf(ParentOf(i))

\* the depth of the tree: the longest path from scenes[0], in edges
Depth ==
    CHOOSE d \in 0..Len(scenes) :
        /\ \A i \in 0..(Len(scenes) - 1) : DepthOf(i) <= d
        /\ \E i \in 0..(Len(scenes) - 1) : DepthOf(i) = d

\* the frames[0] of every Transform node below the root can be folded
FramesParse ==
    \A i \in 1..(Len(scenes) - 1) :
        scenes[i + 1].t = "Transform" =>
            /\ arm_translation(scenes[i + 1].frames[1], <<0, 0, 0>>).k = "ok"
            /\ arm_orientation(scenes[i + 1].frames[1], Identity3).k = "ok"

\* C30: on every finite scene graph that is a tree with in-range indices
\* and a Transform root, iterate_vox_tree terminates with an empty work
\* stack, and the stack height never exceeds the depth of the tree.
C30_WalkTerminates ==
    /\ <>(tpc = "done" /\ node_stack = <<>>)
    /\ [](Len(node_stack) <= Depth)

\* the same for the trees whose frames can be folded
WalkTerminatesWhenFramesParse ==
    /\ FramesParse => <>(tpc = "done" /\ node_stack = <<>>)
    /\ [](Len(node_stack) <= Depth)
====
